---- MODULE Spec2Model ----
(***************************************************************************)
(* Model of the per-ecosystem test runners of WeatherPython                *)
(* (src/weathertools/aws/.../run_tests.py): discovery of the service       *)
(* directories, the per-service loop (has-tests predicate, test command,   *)
(* result parser, accumulation), the report builder and the upload.        *)
(*                                                                         *)
(* A run is one execution of one runner script.  The runner is chosen in   *)
(* Init (tool); the file system and the behaviour of the external tools    *)
(* are inputs: the root listing is fixed in Init, and what a service's     *)
(* directory holds and what its tools answer is drawn when the loop        *)
(* reaches the service.                                                    *)
(*                                                                         *)
(* Names are sequences of code points, so that sorted() and str.lower()    *)
(* are computed as Python computes them.  A text is a sequence of lines;   *)
(* a line is a record of the features the parsers' patterns look at.       *)
(***************************************************************************)
EXTENDS Integers, Sequences, FiniteSets, TLC

\* ------------------------------------------------------------------ bounds
\* Longest root directory listing.
MaxEntries == 3

\* ------------------------------------------------------------------- names
\* "ec2", "iam", "s3", "S3", "ecr", "README", "global", "bedrock-agent-runtime"
N_ec2 == <<101, 99, 50>>
N_iam == <<105, 97, 109>>
N_s3 == <<115, 51>>
N_S3 == <<83, 51>>
N_ecr == <<101, 99, 114>>
N_README == <<82, 69, 65, 68, 77, 69>>
N_global == <<103, 108, 111, 98, 97, 108>>
N_bedrock == <<98, 101, 100, 114, 111, 99, 107, 45, 97, 103, 101, 110, 116,
               45, 114, 117, 110, 116, 105, 109, 101>>

\* str.lower() on one code point (ASCII).
LowerChar(c) == IF c >= 65 /\ c <= 90 THEN c + 32 ELSE c

\* str.lower()
Lower(s) == [i \in 1..Len(s) |-> LowerChar(s[i])]

\* Python's str.__lt__: code-point lexicographic order.
LexLess(a, b) ==
  \E k \in 1..(Len(a) + 1) :
     /\ \A i \in 1..(k - 1) : i <= Len(b) /\ a[i] = b[i]
     /\ k <= Len(b)
     /\ (k <= Len(a) => a[k] < b[k])

RECURSIVE Insert(_, _)
Insert(x, s) ==
  IF s = <<>> THEN <<x>>
  ELSE IF LexLess(x, Head(s)) THEN <<x>> \o s
  ELSE <<Head(s)>> \o Insert(x, Tail(s))

\* sorted(list of str)
RECURSIVE Sorted(_)
Sorted(s) == IF s = <<>> THEN <<>> ELSE Insert(Head(s), Sorted(Tail(s)))

\* --------------------------------------------------------- generic helpers
RECURSIVE SumSeq(_)
SumSeq(s) == IF s = <<>> THEN 0 ELSE Head(s) + SumSeq(Tail(s))

RECURSIVE Flatten(_)
Flatten(ss) == IF ss = <<>> THEN <<>> ELSE Head(ss) \o Flatten(Tail(ss))

\* Number of records of a failure list that name the service.
CountFor(recs, svc) == Cardinality({i \in 1..Len(recs) : recs[i].service = svc})

\* order_tested of a record that carries none.
NoOrder == 0

\* One record of the report's tests list.
Failure(svc, name, status, msg, order) ==
  [service |-> svc, test_name |-> name, status |-> status,
   message |-> msg, order_tested |-> order]

\* ------------------------------------------------------------ file system
Tools == {"maven", "kotlin", "dotnet", "rust", "go", "javascript", "cpp",
          "phpunit", "ruby"}

\* The entries a root directory may hold: [name, isdir, cargo]; cargo says
\* that the directory holds a Cargo.toml (looked at by the Rust discovery).
Dir(n) == [name |-> n, isdir |-> TRUE, cargo |-> TRUE]
File(n) == [name |-> n, isdir |-> FALSE, cargo |-> FALSE]
PlainDir(n) == [name |-> n, isdir |-> TRUE, cargo |-> FALSE]

EntryUniverse(t) ==
  {Dir(N_ec2), Dir(N_s3), Dir(N_S3), File(N_README)}
    \cup (IF t = "kotlin" THEN {Dir(N_iam)} ELSE {})
    \cup (IF t = "maven" THEN {Dir(N_ecr)} ELSE {})
    \cup (IF t = "rust" THEN {PlainDir(N_ecr)} ELSE {})
    \cup (IF t = "phpunit" THEN {Dir(N_bedrock)} ELSE {})

\* os.listdir(root): the entries in the order the file system returns them.
Listings(t) ==
  {l \in UNION {[1..n -> EntryUniverse(t)] : n \in 0..MaxEntries} :
      \A i, j \in 1..Len(l) : i # j => l[i].name # l[j].name}

RECURSIVE DirNames(_)
\* [d for d in os.listdir(root) if os.path.isdir(join(root, d))]
DirNames(l) ==
  IF l = <<>> THEN <<>>
  ELSE (IF Head(l).isdir THEN <<Head(l).name>> ELSE <<>>) \o DirNames(Tail(l))

RECURSIVE AllNames(_)
\* os.listdir(root)
AllNames(l) == IF l = <<>> THEN <<>> ELSE <<Head(l).name>> \o AllNames(Tail(l))

RECURSIVE Without(_, _)
Without(s, excl) ==
  IF s = <<>> THEN <<>>
  ELSE (IF Head(s) \in excl THEN <<>> ELSE <<Head(s)>>) \o Without(Tail(s), excl)


\* =================================================================== state
VARIABLES
  tool,                \* the runner script of this run
  rootExists,          \* the discovery root is a directory
  toolInstalled,       \* the ecosystem's build/test tool can be started
  listing,             \* os.listdir(root), in file-system order
  pc,                  \* position of main(): start, loop, waiting, upload,
                       \*   done, halted (returned early), crashed (uncaught)
  crash,               \* why the run crashed: none, discovery, service,
                       \*   write, upload, interrupt
  services,            \* the sequence the loop iterates over
  idx,                 \* 1-based position of the next loop iteration
  total_passed, total_failed, total_skipped,
  total_tests,         \* running total (Kotlin, Rust); others sum at the end
  services_tested,     \* counter of services (tested_services, summary.services)
  failed_tests,        \* the tests list (failed_tests, all_tests, tests_array)
  no_tests,            \* the no-tests list
  service_details,     \* per-service records
  services_tested_list,\* Rust: names of the services tested
  test_index,          \* Maven, JavaScript, C++: running index of test names
  report,              \* the schema json.dump wrote, NoReport before
  written,             \* number of report files written
  uploaded,            \* number of upload_file calls made
  execs,               \* observation of each loop iteration (call spy)
  clock,               \* time.time(), in steps of main()
  start_time,          \* the start_time main() captured, NoTime before
  spans,               \* clock at entry and exit of each loop iteration
  inputs               \* what each loop iteration found: the service
                       \*   directory and the answers of the tool

vars == <<tool, rootExists, toolInstalled, listing, pc, crash, services, idx, total_passed,
          total_failed, total_skipped, total_tests, services_tested,
          failed_tests, no_tests, service_details, services_tested_list,
          test_index, report, written, uploaded, execs, clock, start_time,
          spans, inputs>>

NoReport == [emitted |-> FALSE]

\* start_time before main() assigned it.
NoTime == -1

\* What the spy notes about one loop iteration.
\*   pred     : yes / no (has-tests predicate), excluded, notdir
\*   invoked  : a build or test command was started for the service
\*   outcome  : none, ran (exit status obtained), nostart (tool missing or
\*              build step failed), raised (exception out of run or parse)
\*   rc       : exit status of the test command
\*   parseable: the tool left a report or output the parser can read
\*   parsed   : <<passed, failed, skipped>> the parser derives from it
\*   counted  : <<passed, failed, skipped>> added to the run totals
\*   added    : number of records appended to the tests list
Exec(svc, pred, invoked, outcome, rc, parseable, parsed, counted, added) ==
  [service |-> svc, pred |-> pred, invoked |-> invoked, outcome |-> outcome,
   rc |-> rc, parseable |-> parseable, parsed |-> parsed,
   counted |-> counted, added |-> added]

Zero3 == <<0, 0, 0>>

\* An iteration that starts no command.
NotRun(svc, pred) == Exec(svc, pred, FALSE, "none", 0, FALSE, Zero3, Zero3, 0)

Init ==
  /\ tool \in Tools
  /\ rootExists \in BOOLEAN
  /\ toolInstalled \in BOOLEAN
  /\ listing \in (IF rootExists THEN Listings(tool) ELSE {<<>>})
  /\ pc = "start"
  /\ crash = "none"
  /\ services = <<>>
  /\ idx = 1
  /\ total_passed = 0 /\ total_failed = 0 /\ total_skipped = 0
  /\ total_tests = 0
  /\ services_tested = 0
  /\ failed_tests = <<>>
  /\ no_tests = <<>>
  /\ service_details = <<>>
  /\ services_tested_list = <<>>
  /\ test_index = 1
  /\ report = NoReport
  /\ written = 0
  /\ uploaded = 0
  /\ execs = <<>>
  /\ clock = 0
  /\ start_time = NoTime
  /\ spans = <<>>
  /\ inputs = <<>>

\* The current service of the loop.
Cur == services[idx]

InLoop(t) == tool = t /\ pc = "loop" /\ idx <= Len(services)
AtEnd(t) == tool = t /\ pc = "loop" /\ idx > Len(services)

totals == <<total_passed, total_failed, total_skipped, total_tests>>
lists == <<failed_tests, no_tests, service_details, services_tested_list>>
fsys == <<tool, rootExists, toolInstalled, listing>>
sink == <<report, written, uploaded>>

\* A step of main() takes time.
Ticked == clock' = clock + 1 /\ UNCHANGED <<start_time, spans, inputs>>

\* start_time = int(time.time() * 1000)
Started ==
  clock' = clock + 1 /\ start_time' = clock /\ UNCHANGED <<spans, inputs>>

\* One loop iteration runs from clock to clock + 1.
Dispatched ==
  /\ clock' = clock + 1
  /\ spans' = Append(spans, [from |-> clock, to |-> clock + 1])
  /\ UNCHANGED start_time

\* main() returns early: nothing is written.
Halt ==
  /\ pc' = "halted"
  /\ UNCHANGED <<fsys, crash, services, idx, totals, services_tested, lists,
                 test_index, sink, execs>>

\* An exception leaves main(): the interpreter exits with a traceback.
Crash(cause) ==
  /\ pc' = "crashed"
  /\ crash' = cause
  /\ UNCHANGED <<fsys, services, idx, totals, services_tested, lists,
                 test_index, sink>>

\* subprocess.run(...) is called without timeout= on a child that never
\* exits: main() waits in communicate() and takes no further step.
Blocks ==
  /\ pc' = "waiting"
  /\ execs' = Append(execs, Exec(Cur, "yes", TRUE, "hung", 0, FALSE,
                                 Zero3, Zero3, 0))
  /\ UNCHANGED <<fsys, crash, services, idx, totals, services_tested, lists,
                 test_index, sink>>

\* The loop is entered over the discovered sequence.
Enter(seq) ==
  /\ services' = seq
  /\ pc' = "loop"
  /\ UNCHANGED <<fsys, crash, idx, totals, services_tested, lists,
                 test_index, sink, execs>>

\* WriteReport with the error of the write caught and only printed
WriteReportSwallowed(schema) ==
  \E writeOk \in BOOLEAN :
     /\ IF writeOk
          THEN report' = schema /\ written' = written + 1
          ELSE report' = report /\ written' = written
     /\ pc' = "upload" /\ crash' = crash
     /\ UNCHANGED <<fsys, services, idx, totals, services_tested, lists,
                    test_index, uploaded, execs>>

\* with open(filename, "w") as f: json.dump(schema, f)
WriteReport(schema) ==
  \E writeOk \in BOOLEAN :
     /\ IF writeOk
          THEN /\ report' = schema /\ written' = written + 1
               /\ pc' = "upload" /\ crash' = crash
          ELSE /\ report' = report /\ written' = written
               /\ pc' = "crashed" /\ crash' = "write"
     /\ UNCHANGED <<fsys, services, idx, totals, services_tested, lists,
                    test_index, uploaded, execs>>

\* ================================================================== Maven
EXCLUDED_SERVICES == {N_ecr}

\* --- surefire XML.  xml = [present, files]; file = [ok, suites];
\* suite = [tests, failures, errors, skipped, cases];
\* case = [classname, name, fnodes, skipped]; fnode = [message, text].
NoXml == [present |-> FALSE, files |-> <<>>]

XmlNode(m, t) == [message |-> m, text |-> t]
XmlCase(c, n, fn, sk) == [classname |-> c, name |-> n, fnodes |-> fn, skipped |-> sk]
XmlSuite(t, f, e, s, cs) ==
  [tests |-> t, failures |-> f, errors |-> e, skipped |-> s, cases |-> cs]
XmlFile(ok, ss) == [ok |-> ok, suites |-> ss]
Xml(fs) == [present |-> TRUE, files |-> fs]

PassCase == XmlCase("C", "ok", <<>>, FALSE)
FailCase == XmlCase("C", "bad", <<XmlNode("expected 1", "at C.bad")>>, FALSE)
SkipCase == XmlCase("C", "skip", <<>>, TRUE)

RECURSIVE OkSuites(_)
\* the suites of the files ET.parse accepts
OkSuites(files) ==
  IF files = <<>> THEN <<>>
  ELSE (IF Head(files).ok THEN Head(files).suites ELSE <<>>) \o OkSuites(Tail(files))

RECURSIVE FailingCases(_)
\* the testcases with a failure or error child, in document order
FailingCases(cases) ==
  IF cases = <<>> THEN <<>>
  ELSE (IF Head(cases).fnodes # <<>> THEN <<Head(cases)>> ELSE <<>>)
         \o FailingCases(Tail(cases))

RECURSIVE NodeParts(_)
\* parts: (msg + "\n" + txt).strip() of each node, the empty ones dropped
NodeParts(nodes) ==
  IF nodes = <<>> THEN <<>>
  ELSE (IF Head(nodes).message = "" /\ Head(nodes).text = "" THEN <<>>
        ELSE SelectSeq(<<Head(nodes).message, Head(nodes).text>>,
                       LAMBDA x : x # ""))
         \o NodeParts(Tail(nodes))

\* message of one failing testcase
SurefireMessage(case) ==
  <<case.classname, case.name>>
    \o (IF NodeParts(case.fnodes) = <<>> THEN <<"FAILED">>
        ELSE NodeParts(case.fnodes))

\* parse_surefire_reports: none is the None return
parse_surefire_reports(xml, service_name, test_index_start) ==
  LET suites == OkSuites(xml.files)
      tt == SumSeq([i \in 1..Len(suites) |-> suites[i].tests])
      tf == SumSeq([i \in 1..Len(suites) |-> suites[i].failures + suites[i].errors])
      ts == SumSeq([i \in 1..Len(suites) |-> suites[i].skipped])
      bad == FailingCases(Flatten([i \in 1..Len(suites) |-> suites[i].cases]))
  IN  [none |-> ~xml.present \/ xml.files = <<>>,
       passed |-> tt - tf - ts,
       failed |-> tf,
       skipped |-> ts,
       failures |-> [k \in 1..Len(bad) |->
                       Failure(service_name,
                               <<"test", service_name, test_index_start + k - 1>>,
                               "failed", SurefireMessage(bad[k]), NoOrder)],
       test_index |-> test_index_start + Len(bad)]

\* --- Maven console.  line = [bracket, tr, run, failures, errors, skipped,
\* mark, txt]: bracket = starts with [INFO], [ERROR] or [WARNING];
\* tr = holds "Tests run: r, Failures: f, Errors: e, Skipped: s";
\* mark = the part a block takes of it holds Exception, FAILURE or ERROR.
MvnLine(b, m, txt) ==
  [bracket |-> b, tr |-> FALSE, run |-> 0, failures |-> 0, errors |-> 0,
   skipped |-> 0, mark |-> m, txt |-> txt]
MvnTestsRun(b, r, f, e, s, m, txt) ==
  [bracket |-> b, tr |-> TRUE, run |-> r, failures |-> f, errors |-> e,
   skipped |-> s, mark |-> m, txt |-> txt]

RECURSIVE mvn_parse_test_results(_)
\* parse_test_results: every "Tests run:" line is added up
mvn_parse_test_results(output) ==
  IF output = <<>> THEN Zero3
  ELSE LET l == Head(output)
           r == mvn_parse_test_results(Tail(output))
       IN  IF l.tr
             THEN <<r[1] + (l.run - (l.failures + l.errors + l.skipped)),
                    r[2] + l.failures + l.errors,
                    r[3] + l.skipped>>
             ELSE r

RECURSIVE MvnBlocks(_, _, _)
\* the matches of (Tests run:.*?)(?=^\[(?:INFO|ERROR|WARNING)\]|\Z)
MvnBlocks(lines, cur, inBlock) ==
  IF lines = <<>> THEN (IF inBlock THEN <<cur>> ELSE <<>>)
  ELSE LET l == Head(lines) IN
       IF inBlock /\ ~l.bracket THEN MvnBlocks(Tail(lines), Append(cur, l), TRUE)
       ELSE (IF inBlock THEN <<cur>> ELSE <<>>)
              \o (IF l.tr THEN MvnBlocks(Tail(lines), <<l>>, TRUE)
                  ELSE MvnBlocks(Tail(lines), <<>>, FALSE))

\* log_lines of a block
MvnLogLines(block) ==
  LET m == SelectSeq(block, LAMBDA l : l.mark)
  IN  [i \in 1..Len(m) |-> m[i].txt]

\* extract_failures (Maven)
mvn_extract_failures(output, service_name, test_index_start) ==
  LET blocks == SelectSeq(MvnBlocks(output, <<>>, FALSE),
                          LAMBDA b : MvnLogLines(b) # <<>>)
  IN  [failures |-> [k \in 1..Len(blocks) |->
                       Failure(service_name,
                               <<"test", service_name, test_index_start + k - 1>>,
                               "failed", MvnLogLines(blocks[k]), NoOrder)],
       test_index |-> test_index_start + Len(blocks)]

\* What a Maven service directory holds and what mvn answers.
\*   pom: pom.xml exists; it: has_integration_tests (yes, no, unreadable =
\*   open/read of a .java file raises)
\*   xml: the report this run of mvn writes; console: its output;
\*   stale: the surefire-reports directory an earlier run left behind;
\*   rmtree: shutil.rmtree of it succeeds
MvnFix(pom, it, rc, xml, console) ==
  [pom |-> pom, it |-> it, rc |-> rc, xml |-> xml, console |-> console,
   stale |-> NoXml, rmtree |-> TRUE]
WithStale(fx, stale, rmtree) == [fx EXCEPT !.stale = stale, !.rmtree = rmtree]

\* the report of an earlier run: one test, failing
StaleXml == Xml(<<XmlFile(TRUE, <<XmlSuite(1, 1, 0, 0, <<FailCase>>)>>)>>)

\* target/surefire-reports when parse_surefire_reports looks at it: what mvn
\* wrote, next to the files of an earlier run if their removal failed
ReportDir(fx) ==
  IF fx.stale.present /\ ~fx.rmtree
    THEN Xml(fx.stale.files \o fx.xml.files)
    ELSE fx.xml

MavenFixtures ==
  { MvnFix(FALSE, "no", 0, NoXml, <<>>),
    MvnFix(TRUE, "no", 0, NoXml, <<>>),
    MvnFix(TRUE, "unreadable", 0, NoXml, <<>>),
    \* all green, surefire report
    MvnFix(TRUE, "yes", 0,
           Xml(<<XmlFile(TRUE, <<XmlSuite(2, 0, 0, 0, <<PassCase, PassCase>>)>>)>>),
           <<MvnTestsRun(TRUE, 2, 0, 0, 0, FALSE, "Tests run: 2")>>),
    \* tests="5" failures="1" errors="0" skipped="1"
    MvnFix(TRUE, "yes", 1,
           Xml(<<XmlFile(TRUE, <<XmlSuite(5, 1, 0, 1,
                  <<PassCase, FailCase, SkipCase, PassCase, PassCase>>)>>)>>),
           <<MvnTestsRun(TRUE, 5, 1, 0, 1, TRUE, "Tests run: 5 <<< FAILURE!")>>),
    \* no report, console "Tests run: 10, Failures: 2, Errors: 1, Skipped: 0"
    MvnFix(TRUE, "yes", 1, NoXml,
           <<MvnLine(TRUE, FALSE, "[INFO] Running C"),
             MvnTestsRun(TRUE, 10, 2, 1, 0, TRUE, "Tests run: 10 <<< FAILURE!"),
             MvnLine(FALSE, TRUE, "java.lang.Exception: boom"),
             MvnLine(TRUE, TRUE, "[ERROR] BUILD FAILURE")>>),
    \* the only report file is cut short; the console holds the counts
    MvnFix(TRUE, "yes", 1, Xml(<<XmlFile(FALSE, <<>>)>>),
           <<MvnTestsRun(TRUE, 4, 1, 0, 0, TRUE, "Tests run: 4 <<< FAILURE!")>>),
    \* mvn fails before any test ran: no report, nothing to parse
    MvnFix(TRUE, "yes", 1, NoXml,
           <<MvnLine(TRUE, TRUE, "[ERROR] BUILD FAILURE")>>),
    \* no report; the console holds the line of the one test class and the
    \* aggregate line of the build, both "Tests run: 3, Failures: 1, ..."
    MvnFix(TRUE, "yes", 1, NoXml,
           <<MvnTestsRun(TRUE, 3, 1, 0, 0, TRUE, "Tests run: 3 <<< FAILURE! - in C"),
             MvnLine(TRUE, FALSE, "[INFO] Results:"),
             MvnTestsRun(TRUE, 3, 1, 0, 0, FALSE, "Tests run: 3")>>),
    \* no report; the counts of the console line do not add up:
    \* "Tests run: 1, Failures: 1, Errors: 1, Skipped: 0"
    MvnFix(TRUE, "yes", 1, NoXml,
           <<MvnTestsRun(TRUE, 1, 1, 1, 0, TRUE, "Tests run: 1 <<< FAILURE!")>>),
    \* an earlier run left a report; it is removed and this run is green
    WithStale(MvnFix(TRUE, "yes", 0,
                Xml(<<XmlFile(TRUE, <<XmlSuite(2, 0, 0, 0, <<PassCase, PassCase>>)>>)>>),
                <<MvnTestsRun(TRUE, 2, 0, 0, 0, FALSE, "Tests run: 2")>>),
              StaleXml, TRUE),
    \* an earlier run left a report that cannot be removed; this run is green
    WithStale(MvnFix(TRUE, "yes", 0,
                Xml(<<XmlFile(TRUE, <<XmlSuite(2, 0, 0, 0, <<PassCase, PassCase>>)>>)>>),
                <<MvnTestsRun(TRUE, 2, 0, 0, 0, FALSE, "Tests run: 2")>>),
              StaleXml, FALSE) }

\* main() up to the loop: clone_repo, start_time, sorted(os.listdir(...))
MavenDiscover ==
  /\ tool = "maven" /\ pc = "start"
  /\ Started
  /\ \E cloneOk \in BOOLEAN :
        IF ~cloneOk THEN Halt                       \* sys.exit
        ELSE IF ~rootExists THEN Crash("discovery") /\ UNCHANGED execs
        ELSE Enter(Sorted(Without(DirNames(listing), EXCLUDED_SERVICES)))

\* run_maven_tests asking the console before the surefire report
run_maven_tests_console_first(fx, service_name, index) ==
  LET x == parse_surefire_reports(ReportDir(fx), service_name, index)
      c == mvn_parse_test_results(fx.console)
      e == mvn_extract_failures(fx.console, service_name, index)
  IN  IF c # Zero3
        THEN [counts |-> c, failures |-> e.failures, test_index |-> e.test_index]
        ELSE [counts |-> <<x.passed, x.failed, x.skipped>>,
              failures |-> x.failures, test_index |-> x.test_index]

\* run_maven_tests
run_maven_tests(fx, service_name, index) ==
  LET x == parse_surefire_reports(ReportDir(fx), service_name, index)
      c == mvn_parse_test_results(fx.console)
      e == mvn_extract_failures(fx.console, service_name, index)
  IN  IF ~x.none
        THEN [counts |-> <<x.passed, x.failed, x.skipped>>,
              failures |-> x.failures, test_index |-> x.test_index]
        ELSE IF c[2] > 0
          THEN [counts |-> c, failures |-> e.failures, test_index |-> e.test_index]
          ELSE [counts |-> c, failures |-> <<>>, test_index |-> index]

\* the tool left something the Maven parsers can read
MvnParseable(fx) ==
  \/ \E i \in 1..Len(ReportDir(fx).files) : ReportDir(fx).files[i].ok
  \/ \E i \in 1..Len(fx.console) : fx.console[i].tr

\* run_command of run_maven_tests is reached
MavenInvokes(fx) == fx.pom /\ fx.it = "yes" /\ toolInstalled

\* one iteration of "for service_name in service_dirs"
MavenService ==
  /\ InLoop("maven")
  /\ Dispatched
  /\ \E fx \in MavenFixtures, hang \in BOOLEAN :
      /\ inputs' = Append(inputs, fx)
      /\ IF hang /\ MavenInvokes(fx) THEN Blocks ELSE
       IF fx.pom /\ fx.it = "unreadable"
         THEN /\ Crash("service")
              /\ execs' = Append(execs, Exec(Cur, "raised", FALSE, "raised", 0,
                                             FALSE, Zero3, Zero3, 0))
       ELSE IF fx.pom /\ fx.it = "yes"
         THEN IF ~toolInstalled
           THEN /\ Crash("service")
                /\ execs' = Append(execs, Exec(Cur, "yes", TRUE, "nostart", 0,
                                               FALSE, Zero3, Zero3, 0))
           ELSE LET r == run_maven_tests(fx, Cur, test_index) IN
                /\ failed_tests' = failed_tests \o r.failures
                /\ test_index' = r.test_index
                /\ total_passed' = total_passed + r.counts[1]
                /\ total_failed' = total_failed + r.counts[2]
                /\ total_skipped' = total_skipped + r.counts[3]
                /\ services_tested' = services_tested + 1
                /\ idx' = idx + 1
                /\ execs' = Append(execs, Exec(Cur, "yes", TRUE, "ran", fx.rc,
                                     MvnParseable(fx), r.counts, r.counts,
                                     Len(r.failures)))
                /\ UNCHANGED <<fsys, pc, crash, services, total_tests, no_tests,
                               service_details, services_tested_list, sink>>
       ELSE /\ idx' = idx + 1
            /\ execs' = Append(execs, NotRun(Cur, "no"))
            /\ UNCHANGED <<fsys, pc, crash, services, totals, services_tested,
                           lists, test_index, sink>>

\* pass_rate is kept as the fraction num/den.
Ratio(n, d) == [num |-> n, den |-> d]

\* the schema of main() and the json.dump
MavenReport ==
  /\ AtEnd("maven")
  /\ Ticked
  /\ LET tt == total_passed + total_failed + total_skipped IN
     WriteReport([emitted |-> TRUE, tool |-> "maven",
       summary |-> [start_time |-> start_time, stop_time |-> clock,
                    services |-> services_tested, tests |-> tt,
                    passed |-> total_passed, failed |-> total_failed,
                    skipped |-> total_skipped,
                    pass_rate |-> IF tt > 0 THEN Ratio(total_passed, tt)
                                  ELSE Ratio(0, 1)],
       tests |-> failed_tests])

\* ================================================================= Kotlin
SKIP_SERVICES == {N_s3}

\* --- Gradle test results.  results = [present, files]; file = [ok, cases];
\* case = [name, skipped, failure, error]: failure and error hold the
\* <failure> / <error> children ([message, text]) in document order.
KtCase(n, sk, f, e) == [name |-> n, skipped |-> sk, failure |-> f, error |-> e]
KtFile(ok, cs) == [ok |-> ok, cases |-> cs]
KtResults(fs) == [present |-> TRUE, files |-> fs]
NoResults == [present |-> FALSE, files |-> <<>>]

\* message = node.attrib.get("message", "") + "\n" + node.text
KtMessage(node) == SelectSeq(<<node.message, node.text>>, LAMBDA x : x # "")

\* the classification of one testcase by parse_test_results
KtStatus(c) ==
  IF c.skipped THEN "skipped"
  ELSE IF c.failure # <<>> \/ c.error # <<>> THEN "failed"
  ELSE "passed"

\* the record parse_test_results appends for a testcase that did not pass
KtRecord(c, service_name) ==
  Failure(service_name, <<c.name>>, KtStatus(c),
          IF c.skipped THEN <<"Test skipped">>
          ELSE IF c.failure # <<>> THEN KtMessage(c.failure[1])
          ELSE KtMessage(c.error[1]),
          NoOrder)

RECURSIVE KtFileRecords(_, _)
KtFileRecords(cases, service_name) ==
  IF cases = <<>> THEN <<>>
  ELSE (IF KtStatus(Head(cases)) # "passed"
          THEN <<KtRecord(Head(cases), service_name)>> ELSE <<>>)
         \o KtFileRecords(Tail(cases), service_name)

KtCount(cases, st) == Cardinality({i \in 1..Len(cases) : KtStatus(cases[i]) = st})

RECURSIVE kt_parse_test_results(_, _)
\* parse_test_results (Kotlin): [tests, passed, failed, skipped, records]
kt_parse_test_results(files, service_name) ==
  IF files = <<>>
    THEN [tests |-> 0, passed |-> 0, failed |-> 0, skipped |-> 0, records |-> <<>>]
  ELSE LET f == Head(files)
           r == kt_parse_test_results(Tail(files), service_name)
       IN  IF f.ok
             THEN [tests |-> Len(f.cases) + r.tests,
                   passed |-> KtCount(f.cases, "passed") + r.passed,
                   failed |-> KtCount(f.cases, "failed") + r.failed,
                   skipped |-> KtCount(f.cases, "skipped") + r.skipped,
                   records |-> KtFileRecords(f.cases, service_name) \o r.records]
             ELSE [tests |-> 1 + r.tests, passed |-> r.passed,
                   failed |-> 1 + r.failed, skipped |-> r.skipped,
                   records |-> <<Failure(service_name, <<"parsing">>, "failed",
                                         <<"traceback">>, NoOrder)>> \o r.records]

\* the service_summary and service_tests of the except branch of main()
KtSetup(service) ==
  [tests |-> 1, passed |-> 0, failed |-> 1, skipped |-> 0,
   records |-> <<Failure(service, <<"setup">>, "failed", <<"traceback">>, NoOrder)>>]

\* What a Kotlin service directory holds and what gradle answers.
\*   has_tests: has_tests(service_path); hang: the process outlives the
\*   600 s timeout (TimeoutExpired); rc: exit status; results: the XML files
KtFix(ht, hang, rc, results) ==
  [has_tests |-> ht, hang |-> hang, rc |-> rc, results |-> results]

KtNode == [message |-> "expected 1", text |-> "at C.bad"]
\* <failure/>: no message attribute, no body text
KtEmptyNode == [message |-> "", text |-> ""]

KotlinFixtures ==
  { KtFix(FALSE, FALSE, 0, NoResults),
    KtFix(TRUE, TRUE, 0, NoResults),
    KtFix(TRUE, FALSE, 0,
          KtResults(<<KtFile(TRUE, <<KtCase("a", FALSE, <<>>, <<>>),
                                     KtCase("b", TRUE, <<>>, <<>>)>>)>>)),
    KtFix(TRUE, FALSE, 0, KtResults(<<KtFile(FALSE, <<>>)>>)),
    \* a failing test: gradle exits 1 and leaves the report
    KtFix(TRUE, FALSE, 1,
          KtResults(<<KtFile(TRUE, <<KtCase("a", FALSE, <<>>, <<>>),
                                     KtCase("b", FALSE, <<KtNode>>, <<>>),
                                     KtCase("c", FALSE, <<>>, <<>>)>>)>>)),
    \* a testcase with a <skipped/> and a <failure> child, and one whose
    \* <failure/> is empty
    KtFix(TRUE, FALSE, 0,
          KtResults(<<KtFile(TRUE, <<KtCase("a", FALSE, <<>>, <<>>),
                                     KtCase("d", TRUE, <<KtNode>>, <<>>),
                                     KtCase("e", FALSE, <<KtEmptyNode>>, <<>>)>>)>>)),
    \* the build fails: exit 1, no report
    KtFix(TRUE, FALSE, 1, NoResults) }

\* main() up to the loop: clone_repo and find_services inside the outer try;
\* the "except Exception" of main() records the global failure
KotlinDiscover ==
  /\ tool = "kotlin" /\ pc = "start"
  /\ Started
  /\ \E cloneOk \in BOOLEAN :
        IF cloneOk /\ rootExists
          THEN Enter(Sorted(DirNames(listing)))
          ELSE /\ failed_tests' = Append(failed_tests,
                      Failure(N_global, <<"setup">>, "failed", <<"traceback">>, NoOrder))
               /\ total_tests' = total_tests + 1
               /\ total_failed' = total_failed + 1
               /\ pc' = "loop"
               /\ UNCHANGED <<fsys, crash, services, idx, total_passed,
                              total_skipped, services_tested, no_tests,
                              service_details, services_tested_list,
                              test_index, sink, execs>>

\* one entry of service_details
Detail(name, order, run, passed, failed, has) ==
  [service_name |-> name, order_tested |-> order, tests_run |-> run,
   passed |-> passed, failed |-> failed, has_tests |-> has]

\* run_gradle_tests followed by parse_test_results, inside the inner try
KtRun(fx, service) ==
  IF ~toolInstalled \/ fx.hang \/ fx.rc # 0 THEN KtSetup(service)
  ELSE IF ~fx.results.present
    THEN [tests |-> 0, passed |-> 0, failed |-> 0, skipped |-> 0, records |-> <<>>]
  ELSE kt_parse_test_results(fx.results.files, service)

\* one iteration of "for order, service in enumerate(services, start=1)"
KotlinService ==
  /\ InLoop("kotlin")
  /\ Dispatched
  /\ \E fx \in KotlinFixtures :
      /\ inputs' = Append(inputs, fx)
      /\
       /\ idx' = idx + 1
       /\ UNCHANGED <<fsys, pc, crash, services, services_tested,
                      services_tested_list, test_index, sink>>
       /\ IF Lower(Cur) \in SKIP_SERVICES
            THEN /\ service_details' = Append(service_details,
                      Detail(Cur, idx, 0, 0, 0, FALSE) @@
                        [skipped_reason |-> "explicitly skipped"])
                 /\ execs' = Append(execs, NotRun(Cur, "excluded"))
                 /\ UNCHANGED <<totals, failed_tests, no_tests>>
          ELSE IF ~fx.has_tests
            THEN /\ no_tests' = Append(no_tests, Cur)
                 /\ service_details' = Append(service_details,
                                              Detail(Cur, idx, 0, 0, 0, FALSE))
                 /\ execs' = Append(execs, NotRun(Cur, "no"))
                 /\ UNCHANGED <<totals, failed_tests>>
          ELSE LET r == KtRun(fx, Cur)
                   p == kt_parse_test_results(fx.results.files, Cur)
               IN
               /\ service_details' = Append(service_details,
                      Detail(Cur, idx, r.tests, r.passed, r.failed, TRUE))
               /\ failed_tests' = failed_tests \o r.records
               /\ total_tests' = total_tests + r.tests
               /\ total_passed' = total_passed + r.passed
               /\ total_failed' = total_failed + r.failed
               /\ total_skipped' = total_skipped + r.skipped
               /\ execs' = Append(execs,
                     Exec(Cur, "yes", TRUE,
                          IF ~toolInstalled THEN "nostart"
                          ELSE IF fx.hang THEN "raised" ELSE "ran",
                          fx.rc,
                          toolInstalled /\ ~fx.hang
                            /\ \E i \in 1..Len(fx.results.files) : fx.results.files[i].ok,
                          <<p.passed, p.failed, p.skipped>>,
                          <<r.passed, r.failed, r.skipped>>,
                          Len(r.records)))
               /\ UNCHANGED no_tests

\* service_order_map of the finally block
ServiceOrderMap(details) ==
  {<<details[i].service_name, details[i].order_tested>> : i \in 1..Len(details)}

\* OrderOf over an enumerate(services) that counts from 0
OrderOfZeroBased(details, svc) ==
  LET hits == {i \in 1..Len(details) : details[i].service_name = svc}
  IN  IF hits = {} THEN -1
      ELSE details[CHOOSE i \in hits : \A j \in hits : j <= i].order_tested - 1

\* service_order_map.get(service, -1): a later entry of the same name wins
OrderOf(details, svc) ==
  LET hits == {i \in 1..Len(details) : details[i].service_name = svc}
  IN  IF hits = {} THEN -1
      ELSE details[CHOOSE i \in hits : \A j \in hits : j <= i].order_tested

RECURSIVE KtFailedOnlyInsertFirst(_, _)
\* KtFailedOnly with failed_tests.insert(0, t_copy) for failed_tests.append
KtFailedOnlyInsertFirst(all_tests, details) ==
  IF all_tests = <<>> THEN <<>>
  ELSE KtFailedOnlyInsertFirst(Tail(all_tests), details)
         \o (IF Head(all_tests).status = "failed"
               THEN <<[Head(all_tests) EXCEPT
                         !.order_tested = OrderOf(details, Head(all_tests).service)]>>
               ELSE <<>>)

\* KtFailedOnly without the test of t.get("status") == "failed"
KtFailedOnlyUnfiltered(all_tests, details) ==
  [k \in 1..Len(all_tests) |->
     [all_tests[k] EXCEPT !.order_tested = OrderOf(details, all_tests[k].service)]]

RECURSIVE KtFailedOnly(_, _)
\* the failed_tests of generate_schema_report
KtFailedOnly(all_tests, details) ==
  IF all_tests = <<>> THEN <<>>
  ELSE (IF Head(all_tests).status = "failed"
          THEN <<[Head(all_tests) EXCEPT
                    !.order_tested = OrderOf(details, Head(all_tests).service)]>>
          ELSE <<>>)
         \o KtFailedOnly(Tail(all_tests), details)

\* generate_schema_report, called from the finally block of main() with
\* service_details as its no_tests argument
KotlinReport ==
  /\ AtEnd("kotlin")
  /\ Ticked
  /\ WriteReport([emitted |-> TRUE, tool |-> "kotlin",
       summary |-> [start_time |-> start_time, stop_time |-> clock,
                    services |-> Cardinality({d[1] : d \in ServiceOrderMap(service_details)}),
                    tests |-> total_tests,
                    passed |-> total_passed, failed |-> total_failed,
                    skipped |-> total_skipped,
                    pass_rate |-> IF total_tests > 0
                                    THEN Ratio(total_passed, total_tests)
                                    ELSE Ratio(0, 1)],
       tests |-> KtFailedOnly(failed_tests, service_details),
       no_tests |-> service_details])

\* =================================================================== .NET
\* --- dotnet console.  line = [kind, failed, passed, skipped, name]:
\* summary = matches "Failed: f, Passed: p, Skipped: s"; header = matches
\* one of the header_regexes of extract_failures_from_text.
NetSummary(f, p, s) ==
  [kind |-> "summary", failed |-> f, passed |-> p, skipped |-> s, name |-> ""]
NetHeader(n) ==
  [kind |-> "header", failed |-> 0, passed |-> 0, skipped |-> 0, name |-> n]
NetOther == [kind |-> "other", failed |-> 0, passed |-> 0, skipped |-> 0, name |-> ""]

RECURSIVE parse_dotnet_test_results(_)
\* the first summary line decides
parse_dotnet_test_results(output) ==
  IF output = <<>> THEN Zero3
  ELSE IF Head(output).kind = "summary"
    THEN <<Head(output).passed, Head(output).failed, Head(output).skipped>>
  ELSE parse_dotnet_test_results(Tail(output))

\* extract_failures_from_text: one record per header line
extract_failures_from_text(output, service_name, order_tested) ==
  LET h == SelectSeq(output, LAMBDA l : l.kind = "header")
  IN  [k \in 1..Len(h) |->
         Failure(Lower(service_name), <<h[k].name>>, "failed", <<"block">>,
                 order_tested)]

\* --- TRX files of the project directory, most recent first.
\* trx = [ours, ok, failed]: ours = named dotnet_results_<order>; ok = parses;
\* failed = testName of the UnitTestResult elements with outcome Failed.
Trx(ours, ok, failed) == [ours |-> ours, ok |-> ok, failed |-> failed]

\* find_trx_file: <<>> is None
find_trx_file(trxs, prefix) ==
  IF trxs = <<>> THEN <<>>
  ELSE LET pref == SelectSeq(trxs, LAMBDA t : t.ours)
       IN  IF prefix /\ pref # <<>> THEN <<pref[1]>> ELSE <<trxs[1]>>

\* parse_trx_for_failures
parse_trx_for_failures(trx, service_name, order_tested) ==
  IF ~trx.ok THEN <<>>
  ELSE [k \in 1..Len(trx.failed) |->
          Failure(Lower(service_name), <<trx.failed[k]>>, "failed",
                  <<"message", "stacktrace">>, order_tested)]

\* extract_failures (.NET): text first, then any TRX
net_extract_failures(output, trxs, service_name, order_tested) ==
  LET t == extract_failures_from_text(output, service_name, order_tested)
      f == find_trx_file(trxs, FALSE)
  IN  IF t # <<>> THEN t
      ELSE IF f # <<>> THEN parse_trx_for_failures(f[1], service_name, order_tested)
      ELSE <<>>

\* What a .NET service directory holds and what dotnet answers.
\*   trait: has_trait_annotation; project: a test .csproj was found
NetFix(trait, project, rc, output, trxs) ==
  [trait |-> trait, project |-> project, rc |-> rc, output |-> output, trxs |-> trxs]

DotnetFixtures ==
  { NetFix(FALSE, TRUE, 0, <<>>, <<>>),
    NetFix(TRUE, FALSE, 0, <<>>, <<>>),
    NetFix(TRUE, TRUE, 0, <<NetOther, NetSummary(0, 2, 1)>>, <<Trx(TRUE, TRUE, <<>>)>>),
    NetFix(TRUE, TRUE, 1, <<NetHeader("T.bad"), NetOther, NetSummary(1, 2, 0)>>,
           <<Trx(TRUE, TRUE, <<"T.bad">>)>>),
    \* failures counted, no header line, TRX unreadable
    NetFix(TRUE, TRUE, 1, <<NetSummary(2, 0, 0)>>, <<Trx(TRUE, FALSE, <<>>)>>),
    \* the build fails: nothing to parse
    NetFix(TRUE, TRUE, 1, <<NetOther>>, <<>>) }

\* DotnetDiscover without the os.path.isdir(root_test_path) check
DotnetDiscoverNoRootCheck ==
  /\ tool = "dotnet" /\ pc = "start"
  /\ Started
  /\ \E cloneOk \in BOOLEAN :
        IF ~cloneOk THEN Halt
        ELSE Enter(Sorted(DirNames(listing)))

\* main() up to the loop
DotnetDiscover ==
  /\ tool = "dotnet" /\ pc = "start"
  /\ Started
  /\ \E cloneOk \in BOOLEAN :
        IF ~cloneOk \/ ~rootExists THEN Halt
        ELSE Enter(Sorted(DirNames(listing)))

\* NetRecords without the else branch that appends the "unknown" record
NetRecordsNoSynthetic(fx, service_name, order_tested) ==
  LET counts == parse_dotnet_test_results(fx.output)
      e1 == net_extract_failures(fx.output, fx.trxs, service_name, order_tested)
      f2 == find_trx_file(fx.trxs, TRUE)
      e2 == IF e1 # <<>> THEN e1
            ELSE IF f2 # <<>>
              THEN parse_trx_for_failures(f2[1], service_name, order_tested)
            ELSE <<>>
  IN  IF counts[2] > 0 THEN e2 ELSE <<>>

\* the failure records run_dotnet_tests adds for one service
NetRecords(fx, service_name, order_tested) ==
  LET counts == parse_dotnet_test_results(fx.output)
      e1 == net_extract_failures(fx.output, fx.trxs, service_name, order_tested)
      f2 == find_trx_file(fx.trxs, TRUE)
      e2 == IF e1 # <<>> THEN e1
            ELSE IF f2 # <<>>
              THEN parse_trx_for_failures(f2[1], service_name, order_tested)
            ELSE <<>>
  IN  IF counts[2] > 0
        THEN IF e2 # <<>> THEN e2
             ELSE <<Failure(Lower(service_name), <<"unknown">>, "failed",
                            <<"Failed tests detected but failure details could not be parsed. See test log.">>,
                            order_tested)>>
        ELSE <<>>

\* run_command of run_dotnet_tests is reached
DotnetInvokes(fx) == fx.trait /\ fx.project /\ toolInstalled

\* one iteration of "for idx, service_name in enumerate(service_dirs, 1)":
\* run_dotnet_tests and the accumulation
DotnetService ==
  /\ InLoop("dotnet")
  /\ Dispatched
  /\ \E fx \in DotnetFixtures, hang \in BOOLEAN :
      /\ inputs' = Append(inputs, fx)
      /\ IF hang /\ DotnetInvokes(fx) THEN Blocks ELSE
       IF ~fx.trait \/ ~fx.project
         THEN /\ no_tests' = Append(no_tests, Lower(Cur))
              /\ idx' = idx + 1
              /\ execs' = Append(execs, NotRun(Cur, "no"))
              /\ UNCHANGED <<fsys, pc, crash, services, totals, services_tested,
                             failed_tests, service_details, services_tested_list,
                             test_index, sink>>
       ELSE IF ~toolInstalled
         THEN /\ Crash("service")
              /\ execs' = Append(execs, Exec(Cur, "yes", TRUE, "nostart", 0,
                                             FALSE, Zero3, Zero3, 0))
       ELSE LET c == parse_dotnet_test_results(fx.output)
                r == NetRecords(fx, Cur, idx)
            IN
            /\ failed_tests' = failed_tests \o r
            /\ total_passed' = total_passed + c[1]
            /\ total_failed' = total_failed + c[2]
            /\ total_skipped' = total_skipped + c[3]
            /\ idx' = idx + 1
            /\ execs' = Append(execs, Exec(Cur, "yes", TRUE, "ran", fx.rc,
                   \E i \in 1..Len(fx.output) : fx.output[i].kind = "summary",
                   c, c, Len(r)))
            /\ UNCHANGED <<fsys, pc, crash, services, total_tests,
                           services_tested, no_tests, service_details,
                           services_tested_list, test_index, sink>>

\* the schema of main() and the json.dump
DotnetReport ==
  /\ AtEnd("dotnet")
  /\ Ticked
  /\ WriteReport([emitted |-> TRUE, tool |-> "dotnet",
       summary |-> [start_time |-> start_time, stop_time |-> clock,
                    services |-> Len(services),
                    tests |-> total_passed + total_failed + total_skipped,
                    passed |-> total_passed, failed |-> total_failed],
       tests |-> failed_tests,
       no_tests |-> no_tests])

\* =================================================================== Rust
RECURSIVE CargoDirs(_)
\* the entries of os.scandir that are directories holding a Cargo.toml
CargoDirs(l) ==
  IF l = <<>> THEN <<>>
  ELSE (IF Head(l).isdir /\ Head(l).cargo THEN <<Head(l).name>> ELSE <<>>)
         \o CargoDirs(Tail(l))

\* discover_services
discover_services(l) == Sorted(CargoDirs(l))

\* parse_test_output: re.search takes the first "test result:" line;
\* results holds the <<passed, failed, ignored>> of each such line
parse_test_output(results) ==
  IF results = <<>>
    THEN [tests |-> 0, passed |-> 0, failed |-> 0, ignored |-> 0]
    ELSE [tests |-> results[1][1] + results[1][2] + results[1][3],
          passed |-> results[1][1], failed |-> results[1][2],
          ignored |-> results[1][3]]

\* What a Rust crate holds and what cargo answers.
\*   has_tests: yes, no, unreadable (open/read of a .rs file raises);
\*   build_rc / build_err: cargo build; test_rc / results: cargo test
RustFix(ht, brc, berr, trc, results) ==
  [has_tests |-> ht, build_rc |-> brc, build_err |-> berr, test_rc |-> trc,
   results |-> results]

RustFixtures ==
  { RustFix("no", 0, <<>>, 0, <<>>),
    RustFix("unreadable", 0, <<>>, 0, <<>>),
    RustFix("yes", 101, <<"error: could not compile">>, 0, <<>>),
    RustFix("yes", 0, <<>>, 0, << <<2, 0, 1>> >>),
    RustFix("yes", 0, <<>>, 101, << <<1, 1, 0>> >>),
    \* the test binary dies before printing a result line
    RustFix("yes", 0, <<>>, 101, <<>>) }

\* module import (get_rust_bin_path), then main() up to the loop:
\* clone_repo raises on failure, os.scandir raises on a missing root
RustDiscover ==
  /\ tool = "rust" /\ pc = "start"
  /\ Started
  /\ \E cloneOk \in BOOLEAN :
        IF ~toolInstalled \/ ~cloneOk \/ ~rootExists
          THEN Crash("discovery") /\ UNCHANGED execs
          ELSE Enter(discover_services(listing))

\* RustBuildFailed without summary["services"] += 1
RustBuildFailedNotCounted(fx) ==
  /\ total_failed' = total_failed + 1
  /\ total_tests' = total_tests + 1
  /\ failed_tests' = Append(failed_tests,
        Failure(Cur, <<"build">>, "failed", fx.build_err, NoOrder))
  /\ execs' = Append(execs, Exec(Cur, "yes", TRUE, "nostart", fx.build_rc,
                                 FALSE, Zero3, <<0, 1, 0>>, 1))
  /\ UNCHANGED <<total_passed, total_skipped, services_tested>>

\* RustBuildFailed without summary["tests"] += failed_tests
RustBuildFailedTestsKept(fx) ==
  /\ total_failed' = total_failed + 1
  /\ services_tested' = services_tested + 1
  /\ failed_tests' = Append(failed_tests,
        Failure(Cur, <<"build">>, "failed", fx.build_err, NoOrder))
  /\ execs' = Append(execs, Exec(Cur, "yes", TRUE, "nostart", fx.build_rc,
                                 FALSE, Zero3, <<0, 1, 0>>, 1))
  /\ UNCHANGED <<total_passed, total_skipped, total_tests>>

\* the branch "if build_code != 0" of main()
RustBuildFailed(fx) ==
  /\ total_failed' = total_failed + 1
  /\ total_tests' = total_tests + 1
  /\ services_tested' = services_tested + 1
  /\ failed_tests' = Append(failed_tests,
        Failure(Cur, <<"build">>, "failed", fx.build_err, NoOrder))
  /\ execs' = Append(execs, Exec(Cur, "yes", TRUE, "nostart", fx.build_rc,
                                 FALSE, Zero3, <<0, 1, 0>>, 1))
  /\ UNCHANGED <<total_passed, total_skipped>>

\* stage 2 and "Aggregate results" of main()
RustTested(fx) ==
  LET parsed == parse_test_output(fx.results) IN
  /\ services_tested' = services_tested + 1
  /\ total_passed' = total_passed + parsed.passed
  /\ total_failed' = total_failed + parsed.failed
  /\ total_skipped' = total_skipped + parsed.ignored
  /\ total_tests' = total_passed' + total_failed' + total_skipped'
  /\ failed_tests' =
       IF parsed.failed > 0
         THEN Append(failed_tests,
                     Failure(Cur, <<"result">>, "failed", <<"combined_out">>, NoOrder))
         ELSE failed_tests
  /\ execs' = Append(execs, Exec(Cur, "yes", TRUE, "ran", fx.test_rc,
                       fx.results # <<>>,
                       <<parsed.passed, parsed.failed, parsed.ignored>>,
                       <<parsed.passed, parsed.failed, parsed.ignored>>,
                       IF parsed.failed > 0 THEN 1 ELSE 0))

\* stage1_build is reached
RustInvokes(fx) == fx.has_tests = "yes"

\* one iteration of "for service in services"
RustService ==
  /\ InLoop("rust")
  /\ Dispatched
  /\ \E fx \in RustFixtures, hang \in BOOLEAN :
      /\ inputs' = Append(inputs, fx)
      /\ IF hang /\ RustInvokes(fx) THEN Blocks ELSE
       IF fx.has_tests = "unreadable"
         THEN /\ Crash("service")
              /\ execs' = Append(execs, Exec(Cur, "raised", FALSE, "raised", 0,
                                             FALSE, Zero3, Zero3, 0))
       ELSE IF fx.has_tests = "no"
         THEN /\ no_tests' = Append(no_tests, Cur)
              /\ idx' = idx + 1
              /\ execs' = Append(execs, NotRun(Cur, "no"))
              /\ UNCHANGED <<fsys, pc, crash, services, totals, services_tested,
                             failed_tests, service_details, services_tested_list,
                             test_index, sink>>
       ELSE /\ services_tested_list' = Append(services_tested_list, Cur)
            /\ idx' = idx + 1
            /\ IF fx.build_rc # 0 THEN RustBuildFailed(fx) ELSE RustTested(fx)
            /\ UNCHANGED <<fsys, pc, crash, services, no_tests, service_details,
                           test_index, sink>>

\* final_results of main() and the json.dump
RustReport ==
  /\ AtEnd("rust")
  /\ Ticked
  /\ WriteReport([emitted |-> TRUE, tool |-> "rust",
       summary |-> [start_time |-> start_time, stop_time |-> clock,
                    services |-> services_tested, tests |-> total_tests,
                    passed |-> total_passed, failed |-> total_failed,
                    ignored |-> total_skipped],
       tests |-> failed_tests,
       no_tests |-> no_tests,
       services_tested |-> services_tested_list])

\* ===================================================================== Go
\* --- go test -v output.  line = [kind, indent]: kind is pass ("--- PASS:"
\* after strip), fail ("--- FAIL:" after strip), FAIL (starts with "FAIL"),
\* skipped (holds "skipped"), blank, other; indent = leading white space.
GoLine(k, ind) == [kind |-> k, indent |-> ind]

RECURSIVE parse_go_test_results(_)
parse_go_test_results(output) ==
  IF output = <<>> THEN Zero3
  ELSE LET r == parse_go_test_results(Tail(output))
           k == Head(output).kind
       IN  IF k = "pass" THEN <<r[1] + 1, r[2], r[3]>>
           ELSE IF k = "fail" THEN <<r[1], r[2] + 1, r[3]>>
           ELSE IF k = "skipped" THEN <<r[1], r[2], r[3] + 1>>
           ELSE r

RECURSIVE GoBlocks(_, _, _)
\* the loop of extract_failures (Go): the blocks it turns into records
GoBlocks(lines, current, in_failure) ==
  IF lines = <<>> THEN (IF current # <<>> THEN <<current>> ELSE <<>>)
  ELSE LET l == Head(lines)
           inf == in_failure \/ (l.kind = "fail" /\ ~l.indent)
       IN  IF ~inf THEN GoBlocks(Tail(lines), current, FALSE)
           ELSE IF (l.kind = "FAIL" /\ ~l.indent) \/ l.kind = "blank"
             THEN <<Append(current, l)>> \o GoBlocks(Tail(lines), <<>>, FALSE)
           ELSE GoBlocks(Tail(lines), Append(current, l), TRUE)

\* extract_failures (Go)
go_extract_failures(output, service_name) ==
  LET b == GoBlocks(output, <<>>, FALSE)
  IN  [k \in 1..Len(b) |->
         Failure(service_name, <<"FAIL">>, "failed", <<"block">>, NoOrder)]

\* What a Go service directory holds and what go answers.
\*   listed: number of lines of "go test -list ." that are neither empty
\*   nor start with "?"; rc / output: go test -v ./...
GoFix(listed, rc, output) == [listed |-> listed, rc |-> rc, output |-> output]

GoFixtures ==
  { GoFix(0, 0, <<>>),
    GoFix(2, 0, <<GoLine("pass", FALSE), GoLine("skipped", FALSE),
                  GoLine("other", FALSE)>>),
    GoFix(2, 1, <<GoLine("pass", FALSE), GoLine("fail", FALSE),
                  GoLine("other", TRUE), GoLine("FAIL", FALSE)>>),
    \* a failing subtest: the "--- FAIL:" lines of parent and child
    GoFix(1, 1, <<GoLine("fail", FALSE), GoLine("fail", TRUE),
                  GoLine("FAIL", FALSE), GoLine("FAIL", FALSE)>>),
    \* the package does not compile: nothing to parse
    GoFix(1, 2, <<GoLine("other", FALSE), GoLine("FAIL", FALSE)>>) }

\* main() up to the loop
GoDiscover ==
  /\ tool = "go" /\ pc = "start"
  /\ Started
  /\ \E cloneOk \in BOOLEAN :
        IF ~cloneOk THEN Halt
        ELSE IF ~rootExists THEN Crash("discovery") /\ UNCHANGED execs
        ELSE Enter(Sorted(DirNames(listing)))

\* "go test -list" is run for every service
GoInvokes(fx) == toolInstalled

\* one iteration of "for service in services"
GoService ==
  /\ InLoop("go")
  /\ Dispatched
  /\ \E fx \in GoFixtures, hang \in BOOLEAN :
      /\ inputs' = Append(inputs, fx)
      /\ IF hang /\ GoInvokes(fx) THEN Blocks ELSE
       IF ~toolInstalled
         THEN /\ Crash("service")
              /\ execs' = Append(execs, Exec(Cur, "raised", FALSE, "nostart", 0,
                                             FALSE, Zero3, Zero3, 0))
       ELSE IF fx.listed = 0
         THEN /\ no_tests' = Append(no_tests, Cur)
              /\ idx' = idx + 1
              /\ execs' = Append(execs, NotRun(Cur, "no"))
              /\ UNCHANGED <<fsys, pc, crash, services, totals, services_tested,
                             failed_tests, service_details, services_tested_list,
                             test_index, sink>>
       ELSE LET c == parse_go_test_results(fx.output)
                r == IF c[2] > 0 THEN go_extract_failures(fx.output, Cur) ELSE <<>>
            IN
            /\ total_passed' = total_passed + c[1]
            /\ total_failed' = total_failed + c[2]
            /\ total_skipped' = total_skipped + c[3]
            /\ failed_tests' = failed_tests \o r
            /\ services_tested' = services_tested + 1
            /\ idx' = idx + 1
            /\ execs' = Append(execs, Exec(Cur, "yes", TRUE, "ran", fx.rc,
                   \E i \in 1..Len(fx.output) :
                      fx.output[i].kind \in {"pass", "fail", "skipped"},
                   c, c, Len(r)))
            /\ UNCHANGED <<fsys, pc, crash, services, total_tests, no_tests,
                           service_details, services_tested_list, test_index, sink>>

\* the schema of main() and the json.dump
GoReport ==
  /\ AtEnd("go")
  /\ Ticked
  /\ WriteReport([emitted |-> TRUE, tool |-> "go",
       summary |-> [start_time |-> start_time, stop_time |-> clock,
                    services |-> services_tested,
                    tests |-> total_passed + total_failed + total_skipped,
                    passed |-> total_passed, failed |-> total_failed,
                    skipped |-> total_skipped],
       tests |-> failed_tests,
       no_tests |-> no_tests])

\* ============================================================= JavaScript
\* --- vitest output.  line = [passed, failed, skipped, mark, blank, name]:
\* passed / failed / skipped = the number before the word on that line,
\* -1 when the line has no such match; mark = holds the cross mark, FAIL or
\* ERROR; blank = empty after strip; name = first [\w./-]+ match, "" if none.
JsLine(p, f, s, mark, blank, name) ==
  [passed |-> p, failed |-> f, skipped |-> s, mark |-> mark, blank |-> blank,
   name |-> name]

RECURSIVE JsLast(_, _, _)
\* the value the loop of parse_js_test_results leaves in one counter
JsLast(output, field, acc) ==
  IF output = <<>> THEN acc
  ELSE JsLast(Tail(output), field,
              IF Head(output)[field] >= 0 THEN Head(output)[field] ELSE acc)

parse_js_test_results(output) ==
  <<JsLast(output, "passed", 0), JsLast(output, "failed", 0),
    JsLast(output, "skipped", 0)>>

RECURSIVE JsBlocks(_, _, _, _)
\* the loop of extract_failures (JavaScript): the test name of every block
JsBlocks(lines, n, name, in_failure) ==
  IF lines = <<>> THEN (IF n > 0 THEN <<name>> ELSE <<>>)
  ELSE LET l == Head(lines)
           inf == in_failure \/ l.mark
           nm == IF l.mark /\ l.name # "" THEN l.name ELSE name
       IN  IF ~inf THEN JsBlocks(Tail(lines), n, nm, FALSE)
           ELSE IF l.blank
             THEN <<nm>> \o JsBlocks(Tail(lines), 0, "", FALSE)
           ELSE JsBlocks(Tail(lines), n + 1, nm, TRUE)

\* extract_failures (JavaScript)
js_extract_failures(output, service_name, test_index_start) ==
  LET b == JsBlocks(output, 0, "", FALSE)
  IN  [failures |-> [k \in 1..Len(b) |->
                       Failure(service_name,
                               IF b[k] # "" THEN <<b[k]>>
                               ELSE <<"test", test_index_start + k - 1>>,
                               "failed", <<"block">>, NoOrder)],
       test_index |-> test_index_start + Len(b)]

\* What a JavaScript service directory holds and what vitest answers.
\*   has_tests: a tests or test directory exists
JsFix(ht, rc, output) == [has_tests |-> ht, rc |-> rc, output |-> output]

JsFixtures ==
  { JsFix(FALSE, 0, <<>>),
    JsFix(TRUE, 0, <<JsLine(-1, -1, -1, FALSE, FALSE, "RUN"),
                     JsLine(3, -1, 1, FALSE, FALSE, "Tests")>>),
    JsFix(TRUE, 1, <<JsLine(-1, -1, -1, TRUE, FALSE, "FAIL"),
                     JsLine(-1, -1, -1, FALSE, FALSE, "AssertionError"),
                     JsLine(-1, -1, -1, FALSE, TRUE, ""),
                     JsLine(2, 1, -1, FALSE, FALSE, "Tests")>>),
    \* vitest cannot start: nothing to parse
    JsFix(TRUE, 1, <<JsLine(-1, -1, -1, TRUE, FALSE, "ERROR")>>) }

\* main() up to the loop: sorted(os.listdir(...)) keeps the plain files
JavaScriptDiscover ==
  /\ tool = "javascript" /\ pc = "start"
  /\ Started
  /\ \E cloneOk \in BOOLEAN :
        IF ~cloneOk THEN Halt
        ELSE IF ~rootExists THEN Crash("discovery") /\ UNCHANGED execs
        ELSE Enter(Sorted(AllNames(listing)))

\* os.path.isdir of an entry of the root
IsDir(name) == \E i \in 1..Len(listing) : listing[i].name = name /\ listing[i].isdir

\* "npx vitest --run" is reached
JavaScriptInvokes(fx) == IsDir(Cur) /\ fx.has_tests /\ toolInstalled

\* one iteration of "for order, service in enumerate(services, start=1)"
JavaScriptService ==
  /\ InLoop("javascript")
  /\ Dispatched
  /\ \E fx \in JsFixtures, hang \in BOOLEAN :
      /\ inputs' = Append(inputs, fx)
      /\ IF hang /\ JavaScriptInvokes(fx) THEN Blocks ELSE
       IF ~IsDir(Cur)
         THEN /\ idx' = idx + 1
              /\ execs' = Append(execs, NotRun(Cur, "notdir"))
              /\ UNCHANGED <<fsys, pc, crash, services, totals, services_tested,
                             lists, test_index, sink>>
       ELSE IF ~fx.has_tests
         THEN /\ service_details' = Append(service_details,
                                           Detail(Lower(Cur), idx, 0, 0, 0, FALSE))
              /\ no_tests' = Append(no_tests, Lower(Cur))
              /\ idx' = idx + 1
              /\ execs' = Append(execs, NotRun(Cur, "no"))
              /\ UNCHANGED <<fsys, pc, crash, services, totals, services_tested,
                             failed_tests, services_tested_list, test_index, sink>>
       ELSE IF ~toolInstalled
         THEN /\ Crash("service")
              /\ execs' = Append(execs, Exec(Cur, "yes", TRUE, "nostart", 0,
                                             FALSE, Zero3, Zero3, 0))
       ELSE LET c == parse_js_test_results(fx.output)
                e == js_extract_failures(fx.output, Cur, test_index)
                r == IF c[2] > 0 THEN e.failures ELSE <<>>
            IN
            /\ total_passed' = total_passed + c[1]
            /\ total_failed' = total_failed + c[2]
            /\ total_skipped' = total_skipped + c[3]
            /\ failed_tests' = failed_tests \o r
            /\ test_index' = IF c[2] > 0 THEN e.test_index ELSE test_index
            /\ service_details' = Append(service_details,
                  Detail(Lower(Cur), idx, c[1] + c[2] + c[3], c[1], c[2], TRUE))
            /\ services_tested' = services_tested + 1
            /\ idx' = idx + 1
            /\ execs' = Append(execs, Exec(Cur, "yes", TRUE, "ran", fx.rc,
                   \E i \in 1..Len(fx.output) :
                      fx.output[i].passed >= 0 \/ fx.output[i].failed >= 0
                        \/ fx.output[i].skipped >= 0,
                   c, c, Len(r)))
            /\ UNCHANGED <<fsys, pc, crash, services, total_tests, no_tests,
                           services_tested_list, sink>>

\* the schema of main() and the json.dump
JavaScriptReport ==
  /\ AtEnd("javascript")
  /\ Ticked
  /\ WriteReport([emitted |-> TRUE, tool |-> "javascript",
       summary |-> [start_time |-> start_time, stop_time |-> clock,
                    services |-> Len(services),
                    tests |-> total_passed + total_failed + total_skipped,
                    passed |-> total_passed, failed |-> total_failed],
       service_details |-> service_details,
       tests |-> failed_tests,
       no_tests |-> no_tests])

\* ==================================================================== C++
\* --- ctest output.  line = [passed, failed, txt]: passed = holds "Passed";
\* failed = holds "Failed" or "failed".
CppLine(p, f, txt) == [passed |-> p, failed |-> f, txt |-> txt]

\* What a C++ example directory holds and what cmake, make, ctest answer.
\*   tests: the tests directory exists; cmake_rc, make_rc: the build steps
CppFix(tests, cmake_rc, make_rc, rc, output) ==
  [tests |-> tests, cmake_rc |-> cmake_rc, make_rc |-> make_rc, rc |-> rc,
   output |-> output]

CppFixtures ==
  { CppFix(FALSE, 0, 0, 0, <<>>),
    CppFix(TRUE, 1, 0, 0, <<>>),
    CppFix(TRUE, 0, 2, 0, <<>>),
    CppFix(TRUE, 0, 0, 0, <<CppLine(TRUE, FALSE, "1/1 Test #1: a ... Passed"),
                            CppLine(FALSE, TRUE, "100% tests passed, 0 tests failed out of 1")>>),
    CppFix(TRUE, 0, 0, 8, <<CppLine(TRUE, FALSE, "1/2 Test #1: a ... Passed"),
                            CppLine(FALSE, TRUE, "2/2 Test #2: b ...***Failed"),
                            CppLine(FALSE, TRUE, "50% tests passed, 1 tests failed out of 2")>>),
    \* ctest finds no test to run
    CppFix(TRUE, 0, 0, 1, <<CppLine(FALSE, FALSE, "No tests were found!!!")>>) }

\* main() and stage_build_and_test_examples up to the loop: the loop runs
\* over os.listdir(root_path) as the file system returns it
CppDiscover ==
  /\ tool = "cpp" /\ pc = "start"
  /\ Started
  /\ \E sdkOk \in BOOLEAN, cloneOk \in BOOLEAN :
        IF ~sdkOk \/ ~cloneOk \/ ~rootExists THEN Halt
        ELSE Enter(AllNames(listing))

\* the failed_tests entries of one ctest output
CppRecords(output, service_root, index) ==
  LET f == SelectSeq(output, LAMBDA l : l.failed)
  IN  [k \in 1..Len(f) |->
         Failure(service_root, <<"test", index + k - 1>>, "failed",
                 <<f[k].txt>>, NoOrder)]

\* cmake is reached
CppInvokes(fx) == IsDir(Cur) /\ fx.tests /\ toolInstalled

\* one iteration of "for service_root in os.listdir(root_path)"
CppService ==
  /\ InLoop("cpp")
  /\ Dispatched
  /\ \E fx \in CppFixtures, hang \in BOOLEAN :
      /\ inputs' = Append(inputs, fx)
      /\ IF hang /\ CppInvokes(fx) THEN Blocks ELSE
       IF ~IsDir(Cur) \/ ~fx.tests
         THEN /\ idx' = idx + 1
              /\ execs' = Append(execs, NotRun(Cur, IF IsDir(Cur) THEN "no" ELSE "notdir"))
              /\ UNCHANGED <<fsys, pc, crash, services, totals, services_tested,
                             lists, test_index, sink>>
       ELSE IF ~toolInstalled
         THEN /\ Crash("service")
              /\ execs' = Append(execs, Exec(Cur, "yes", TRUE, "nostart", 0,
                                             FALSE, Zero3, Zero3, 0))
       ELSE IF fx.cmake_rc # 0 \/ fx.make_rc # 0
         THEN /\ services_tested' = services_tested + 1
              /\ idx' = idx + 1
              /\ execs' = Append(execs, Exec(Cur, "yes", TRUE, "nostart",
                     IF fx.cmake_rc # 0 THEN fx.cmake_rc ELSE fx.make_rc,
                     FALSE, Zero3, Zero3, 0))
              /\ UNCHANGED <<fsys, pc, crash, services, totals, lists,
                             test_index, sink>>
       ELSE LET sp == Len(SelectSeq(fx.output, LAMBDA l : l.passed))
                sf == Len(SelectSeq(fx.output, LAMBDA l : l.failed))
                r == CppRecords(fx.output, Cur, test_index)
            IN
            /\ services_tested' = services_tested + 1
            /\ service_details' = Append(service_details,
                  [service_name |-> Cur, order_tested |-> services_tested + 1,
                   tests_run |-> sp + sf, passed |-> sp, failed |-> sf])
            /\ failed_tests' = failed_tests \o r
            /\ test_index' = test_index + Len(r)
            /\ total_passed' = total_passed + sp
            /\ total_failed' = total_failed + sf
            /\ idx' = idx + 1
            /\ execs' = Append(execs, Exec(Cur, "yes", TRUE, "ran", fx.rc,
                   sp + sf > 0, <<sp, sf, 0>>, <<sp, sf, 0>>, Len(r)))
            /\ UNCHANGED <<fsys, pc, crash, services, total_skipped, total_tests,
                           no_tests, services_tested_list, sink>>

\* the schema of stage_build_and_test_examples and the json.dump
CppReport ==
  /\ AtEnd("cpp")
  /\ Ticked
  /\ WriteReport([emitted |-> TRUE, tool |-> "cpp",
       summary |-> [start_time |-> start_time, stop_time |-> clock,
                    services |-> services_tested,
                    tests |-> total_passed + total_failed,
                    passed |-> total_passed, failed |-> total_failed],
       service_details |-> service_details,
       tests |-> failed_tests])

\* ==================================================================== PHP
PHP_SKIP_SERVICES == {N_bedrock}

\* --- PHPUnit output of one test file.
\* out = [ok, summary, tests, errors, failures, skipped, bang, numbered]:
\* ok = n of "OK (n tests", -1 without; summary = the line
\* "Tests: t, ... Failures: f, ... Skipped: s" is there; bang = holds
\* "FAILURES!"; numbered = count of "<digits>) " matches.
PhpOut(ok, summary, t, f, s, bang, numbered) ==
  [ok |-> ok, summary |-> summary, tests |-> t, errors |-> 0, failures |-> f,
   skipped |-> s, bang |-> bang, numbered |-> numbered]
\* "FAILURES! Tests: t, Assertions: .., Errors: e, Failures: f, Skipped: s."
PhpOutErrors(t, e, f, s) ==
  [ok |-> -1, summary |-> TRUE, tests |-> t, errors |-> e, failures |-> f,
   skipped |-> s, bang |-> TRUE, numbered |-> e + f]

parse_phpunit_output(o) ==
  IF o.ok >= 0 THEN <<o.ok, 0, 0>>
  ELSE IF o.summary THEN <<o.tests - o.failures - o.skipped, o.failures, o.skipped>>
  ELSE IF o.bang THEN <<0, o.numbered, 0>>
  ELSE Zero3

\* What a PHP service directory holds and what phpunit answers.
\*   tests: the tests folder exists; files: the output of phpunit for each
\*   .php file of it, rc: the exit status of each
PhpFix(tests, rcs, files) == [tests |-> tests, rcs |-> rcs, files |-> files]

PhpFixtures ==
  { PhpFix(FALSE, <<>>, <<>>),
    PhpFix(TRUE, <<>>, <<>>),
    PhpFix(TRUE, <<0>>, <<PhpOut(3, FALSE, 0, 0, 0, FALSE, 0)>>),
    PhpFix(TRUE, <<0, 1>>, <<PhpOut(1, FALSE, 0, 0, 0, FALSE, 0),
                             PhpOut(-1, TRUE, 4, 1, 1, TRUE, 1)>>),
    PhpFix(TRUE, <<2>>, <<PhpOut(-1, FALSE, 0, 0, 0, TRUE, 2)>>),
    \* "Tests: 4, Assertions: 4, Errors: 1, Failures: 1, Skipped: 1."
    PhpFix(TRUE, <<2>>, <<PhpOutErrors(4, 1, 1, 1)>>),
    \* a fatal error of the interpreter: nothing to parse
    PhpFix(TRUE, <<255>>, <<PhpOut(-1, FALSE, 0, 0, 0, FALSE, 0)>>) }

\* main() up to the loop
PhpDiscover ==
  /\ tool = "phpunit" /\ pc = "start"
  /\ Ticked
  /\ \E cloneOk \in BOOLEAN, composerOk \in BOOLEAN :
        IF ~cloneOk \/ ~rootExists \/ ~composerOk THEN Halt
        ELSE Enter(Sorted(DirNames(listing)))

RECURSIVE PhpRun(_, _, _)
\* "for test_file in test_files": [passed, failed, skipped, tests_run, records]
PhpRun(files, service_name, order) ==
  IF files = <<>>
    THEN [passed |-> 0, failed |-> 0, skipped |-> 0, tests_run |-> 0, records |-> <<>>]
  ELSE LET c == parse_phpunit_output(Head(files))
           r == PhpRun(Tail(files), service_name, order)
       IN  [passed |-> c[1] + r.passed, failed |-> c[2] + r.failed,
            skipped |-> c[3] + r.skipped,
            tests_run |-> c[1] + c[2] + c[3] + r.tests_run,
            records |-> (IF c[2] > 0
                           THEN <<Failure(service_name, <<"test_file">>, "failed",
                                          <<"output">>, order)>>
                           ELSE <<>>) \o r.records]

\* phpunit is run on a test file
PhpInvokes(fx) == Cur \notin PHP_SKIP_SERVICES /\ fx.tests /\ toolInstalled /\ fx.files # <<>>

\* one iteration of "for idx, service_name in enumerate(services, 1)"
PhpService ==
  /\ InLoop("phpunit")
  /\ Dispatched
  /\ \E fx \in PhpFixtures, hang \in BOOLEAN :
      /\ inputs' = Append(inputs, fx)
      /\ IF hang /\ PhpInvokes(fx) THEN Blocks ELSE
       /\ idx' = idx + 1
       /\ UNCHANGED <<fsys, pc, crash, services, total_tests, services_tested,
                      services_tested_list, test_index, sink>>
       /\ IF Cur \in PHP_SKIP_SERVICES
            THEN /\ service_details' = Append(service_details,
                      Detail(Cur, idx, 0, 0, 0, FALSE) @@ [skipped_manually |-> TRUE])
                 /\ execs' = Append(execs, NotRun(Cur, "excluded"))
                 /\ UNCHANGED <<total_passed, total_failed, total_skipped,
                                failed_tests, no_tests>>
          ELSE IF ~fx.tests
            THEN /\ no_tests' = Append(no_tests, Cur)
                 /\ service_details' = Append(service_details,
                                              Detail(Cur, idx, 0, 0, 0, FALSE))
                 /\ execs' = Append(execs, NotRun(Cur, "no"))
                 /\ UNCHANGED <<total_passed, total_failed, total_skipped,
                                failed_tests>>
          ELSE IF ~toolInstalled
            THEN /\ execs' = Append(execs, Exec(Cur, "yes", FALSE, "nostart", 0,
                                                FALSE, Zero3, Zero3, 0))
                 /\ UNCHANGED <<total_passed, total_failed, total_skipped,
                                failed_tests, no_tests, service_details>>
          ELSE LET r == PhpRun(fx.files, Cur, idx) IN
               /\ total_passed' = total_passed + r.passed
               /\ total_failed' = total_failed + r.failed
               /\ total_skipped' = total_skipped + r.skipped
               /\ failed_tests' = failed_tests \o r.records
               /\ service_details' = Append(service_details,
                     Detail(Cur, idx, r.tests_run, r.passed, r.failed, TRUE))
               /\ execs' = Append(execs, Exec(Cur, "yes", fx.files # <<>>, "ran",
                      IF \E i \in 1..Len(fx.rcs) : fx.rcs[i] # 0 THEN 1 ELSE 0,
                      r.tests_run > 0 \/ r.failed > 0,
                      <<r.passed, r.failed, r.skipped>>,
                      <<r.passed, r.failed, r.skipped>>, Len(r.records)))
               /\ UNCHANGED no_tests

\* round(x, 2) of x = 100 * p / t, as a count of hundredths: the nearest,
\* the even one on a tie
RoundHundredths(p, t) ==
  LET q == (10000 * p) \div t
      r == (10000 * p) % t
  IN  IF 2 * r > t \/ (2 * r = t /\ q % 2 = 1) THEN q + 1 ELSE q

RECURSIVE TestedNames(_)
\* services_tested_list: [d["service_name"] for d in service_details if d.get("has_tests")]
TestedNames(details) ==
  IF details = <<>> THEN <<>>
  ELSE (IF Head(details).has_tests THEN <<Head(details).service_name>> ELSE <<>>)
         \o TestedNames(Tail(details))

\* the schema of main() and the json.dump
PhpReport ==
  /\ AtEnd("phpunit")
  /\ Ticked
  /\ LET tt == total_passed + total_failed + total_skipped IN
     WriteReport([emitted |-> TRUE, tool |-> "phpunit",
       summary |-> [start_time |-> clock, stop_time |-> clock,
                    services |-> Len(TestedNames(service_details)),
                    tests |-> tt,
                    passed |-> total_passed, failed |-> total_failed,
                    skipped |-> total_skipped,
                    pass_rate |-> IF tt > 0
                                    THEN Ratio(RoundHundredths(total_passed, tt), 100)
                                    ELSE Ratio(0, 1)],
       tests |-> failed_tests,
       no_tests |-> no_tests,
       services_tested |-> TestedNames(service_details)])

\* =================================================================== Ruby
\* --- rspec output.  line = [summary, total, failures, failed, txt]:
\* summary = matches "<n> examples, <m> failures"; failed = holds "failed"
\* in any case.
RbLine(failed, txt) ==
  [summary |-> FALSE, total |-> 0, failures |-> 0, failed |-> failed, txt |-> txt]
RbSummary(t, f) ==
  [summary |-> TRUE, total |-> t, failures |-> f, failed |-> FALSE, txt |-> "summary"]

RECURSIVE extract_rspec_summary(_)
\* <<total, passed, failed>> of the first summary line
extract_rspec_summary(output) ==
  IF output = <<>> THEN Zero3
  ELSE IF Head(output).summary
    THEN <<Head(output).total, Head(output).total - Head(output).failures,
           Head(output).failures>>
  ELSE extract_rspec_summary(Tail(output))

\* What a Ruby service directory holds and what rspec answers.
\*   test_files: number of files the glob finds
RbFix(n, rc, output) == [test_files |-> n, rc |-> rc, output |-> output]

RubyFixtures ==
  { RbFix(0, 0, <<>>),
    RbFix(2, 0, <<RbLine(FALSE, "does a"), RbSummary(3, 0)>>),
    RbFix(1, 1, <<RbLine(TRUE, "does b (FAILED - 1)"), RbLine(FALSE, "Failures:"),
                  RbSummary(2, 1), RbLine(TRUE, "Failed examples:")>>),
    \* a file does not load: nothing to parse
    RbFix(1, 1, <<RbLine(FALSE, "LoadError")>>) }

\* main(): stage_1_clone_and_verify, then stage_2_run_tests up to the loop
RubyDiscover ==
  /\ tool = "ruby" /\ pc = "start"
  /\ Started
  /\ \E stage1Ok \in BOOLEAN :
        IF ~stage1Ok \/ ~rootExists THEN Halt
        ELSE Enter(Sorted(AllNames(listing)))

\* the failed_tests entries of one rspec output
RbRecords(output, service_root, order) ==
  LET f == SelectSeq(output, LAMBDA l : l.failed)
  IN  [k \in 1..Len(f) |->
         Failure(service_root, <<"unknown">>, "failed", <<f[k].txt>>, order)]

\* "bundle exec rspec" is reached
RubyInvokes(fx) == IsDir(Cur) /\ fx.test_files # 0 /\ toolInstalled

\* one iteration of "for service_root in sorted(os.listdir(root_path))"
RubyService ==
  /\ InLoop("ruby")
  /\ Dispatched
  /\ \E fx \in RubyFixtures, hang \in BOOLEAN :
      /\ inputs' = Append(inputs, fx)
      /\ IF hang /\ RubyInvokes(fx) THEN Blocks ELSE
       /\ idx' = idx + 1
       /\ UNCHANGED <<fsys, pc, crash, services, total_skipped, total_tests,
                      services_tested_list, test_index, sink>>
       /\ IF ~IsDir(Cur)
            THEN /\ execs' = Append(execs, NotRun(Cur, "notdir"))
                 /\ UNCHANGED <<total_passed, total_failed, services_tested,
                                failed_tests, no_tests, service_details>>
          ELSE IF fx.test_files = 0
            THEN /\ services_tested' = services_tested + 1
                 /\ no_tests' = Append(no_tests, Cur)
                 /\ service_details' = Append(service_details,
                       Detail(Cur, services_tested + 1, 0, 0, 0, FALSE))
                 /\ execs' = Append(execs, NotRun(Cur, "no"))
                 /\ UNCHANGED <<total_passed, total_failed, failed_tests>>
          ELSE LET out == IF toolInstalled THEN fx.output
                          ELSE <<RbLine(FALSE, "Command not found: bundle")>>
                   s == extract_rspec_summary(out)
                   r == RbRecords(out, Cur, services_tested + 1)
               IN
               /\ services_tested' = services_tested + 1
               /\ service_details' = Append(service_details,
                     Detail(Cur, services_tested + 1, s[1], s[2], s[3], TRUE))
               /\ total_passed' = total_passed + s[2]
               /\ total_failed' = total_failed + s[3]
               /\ failed_tests' = failed_tests \o r
               /\ execs' = Append(execs, Exec(Cur, "yes", TRUE,
                      IF toolInstalled THEN "ran" ELSE "nostart",
                      IF toolInstalled THEN fx.rc ELSE 1,
                      \E i \in 1..Len(out) : out[i].summary,
                      <<s[2], s[3], 0>>, <<s[2], s[3], 0>>, Len(r)))
               /\ UNCHANGED no_tests

\* the schema of stage_2_run_tests and the json.dump
RubyReport ==
  /\ AtEnd("ruby")
  /\ Ticked
  /\ WriteReport([emitted |-> TRUE, tool |-> "ruby",
       summary |-> [start_time |-> start_time, stop_time |-> clock,
                    services |-> services_tested,
                    tests |-> total_passed + total_failed,
                    passed |-> total_passed, failed |-> total_failed],
       service_details |-> service_details,
       tests |-> failed_tests,
       no_tests |-> no_tests])

\* upload_to_s3: every runner but Rust catches the exception of upload_file
Upload ==
  /\ pc = "upload"
  /\ Ticked
  /\ \E uploadOk \in BOOLEAN :
       /\ uploaded' = uploaded + 1
       /\ IF ~uploadOk /\ tool = "rust"
            THEN pc' = "crashed" /\ crash' = "upload"
            ELSE pc' = "done" /\ crash' = crash
  /\ UNCHANGED <<fsys, services, idx, totals, services_tested, lists,
                 test_index, report, written, execs>>

\* SIGINT while main() waits for the child in subprocess.run: the child is
\* killed and KeyboardInterrupt, which no handler of these runners catches
\* (they catch Exception or CalledProcessError), leaves main().
Interrupt ==
  /\ pc = "waiting"
  /\ Ticked
  /\ Crash("interrupt")
  /\ UNCHANGED execs

Next ==
  \/ MavenDiscover
  \/ MavenService
  \/ MavenReport
  \/ KotlinDiscover
  \/ KotlinService
  \/ KotlinReport
  \/ DotnetDiscover
  \/ DotnetService
  \/ DotnetReport
  \/ RustDiscover
  \/ RustService
  \/ RustReport
  \/ GoDiscover
  \/ GoService
  \/ GoReport
  \/ JavaScriptDiscover
  \/ JavaScriptService
  \/ JavaScriptReport
  \/ CppDiscover
  \/ CppService
  \/ CppReport
  \/ PhpDiscover
  \/ PhpService
  \/ PhpReport
  \/ RubyDiscover
  \/ RubyService
  \/ RubyReport
  \/ Upload
  \/ Interrupt

Spec == Init /\ [][Next]_vars

\* ================================================================= claims
\* The name under which a runner's failure records carry a service.
RecName(svc) == IF tool = "dotnet" THEN Lower(svc) ELSE svc

\* The service an entry of the report's no_tests list names.
EntryName(n) == IF tool = "kotlin" THEN n.service_name ELSE n

\* The iterations that appended a per-service record.
HasDetail(e) ==
  CASE tool = "kotlin" -> TRUE
    [] tool = "javascript" -> e.pred # "notdir"
    [] tool = "ruby" -> e.pred # "notdir"
    [] tool = "phpunit" -> e.outcome # "nostart"
    [] tool = "cpp" -> e.outcome = "ran"
    [] OTHER -> FALSE

\* The skipped count a summary carries: skipped, ignored (Rust), or none.
SummarySkipped(s) ==
  IF "skipped" \in DOMAIN s THEN s.skipped
  ELSE IF "ignored" \in DOMAIN s THEN s.ignored
  ELSE 0

\* A service-local error: an exception out of running or parsing, or a tool
\* that is not installed.
Errored(e) == e.outcome = "raised" \/ (e.outcome = "nostart" /\ ~toolInstalled)

\* C1: in the emitted report summary.tests = summary.passed +
\* summary.failed + summary.skipped (Rust: ignored), and every per-service
\* record has tests_run = passed + failed + skipped of that service.
C1_TestsAddUp ==
  /\ report.emitted =>
       report.summary.tests = report.summary.passed + report.summary.failed
                                + SummarySkipped(report.summary)
  /\ LET e == SelectSeq(execs, HasDetail) IN
     \A k \in 1..Len(service_details) :
        k <= Len(e) =>
          service_details[k].tests_run =
            service_details[k].passed + service_details[k].failed + e[k].counted[3]

\* C2: the emitted pass_rate is passed / tests when tests > 0 and 0.0 when
\* tests = 0, and is never a division by zero.
C2_PassRate ==
  (report.emitted /\ "pass_rate" \in DOMAIN report.summary) =>
     LET s == report.summary IN
     /\ s.pass_rate.den # 0
     /\ s.tests > 0 => s.pass_rate.num * s.tests = s.passed * s.pass_rate.den
     /\ s.tests = 0 => s.pass_rate.num = 0

C4_NoTestsRecorded ==
  \A i \in 1..Len(execs) :
     execs[i].pred = "no" =>
       /\ ~execs[i].invoked
       /\ execs[i].counted = Zero3 /\ execs[i].added = 0
       /\ CountFor(failed_tests, RecName(execs[i].service)) = 0
       /\ report.emitted =>
            /\ "no_tests" \in DOMAIN report
            /\ \E k \in 1..Len(report.no_tests) :
                  EntryName(report.no_tests[k]) = execs[i].service

\* C5: every entry of the emitted no_tests list names a service whose
\* has-tests predicate was false and for which no command was invoked; a
\* service that was run, or only excluded, is never in no_tests.
C5_NoTestsEntries ==
  (report.emitted /\ "no_tests" \in DOMAIN report) =>
     /\ \A k \in 1..Len(report.no_tests) :
           \E i \in 1..Len(execs) :
              /\ execs[i].service = EntryName(report.no_tests[k])
              /\ execs[i].pred = "no" /\ ~execs[i].invoked
     /\ \A i \in 1..Len(execs) :
           (execs[i].invoked \/ execs[i].pred = "excluded") =>
              \A k \in 1..Len(report.no_tests) :
                 EntryName(report.no_tests[k]) # execs[i].service

\* C6: an error raised while running or parsing one service leaves exactly
\* one failed record with test_name "setup" for that service and never
\* aborts the run.
C6_ErrorIsolated ==
  \A i \in 1..Len(execs) :
     Errored(execs[i]) =>
       /\ crash # "service"
       /\ CountFor(failed_tests, RecName(execs[i].service)) = 1
       /\ \E k \in 1..Len(failed_tests) :
             /\ failed_tests[k].service = RecName(execs[i].service)
             /\ failed_tests[k].test_name = <<"setup">>
             /\ failed_tests[k].status = "failed"

\* C7: when the test command of a service exits non-zero, the counts of
\* the service are the ones the result parser derives from the tool's
\* report or output, and the run is not aborted.
C7_NonZeroForwarded ==
  \A i \in 1..Len(execs) :
     (execs[i].outcome = "ran" /\ execs[i].rc # 0 /\ execs[i].parseable) =>
        execs[i].counted = execs[i].parsed /\ crash # "service"

\* C8: a service whose test command exits non-zero and leaves neither a
\* parseable report nor parseable output has exactly one failed record in
\* the tests list.
C8_OneSyntheticFailure ==
  \A i \in 1..Len(execs) :
     (execs[i].outcome = "ran" /\ execs[i].rc # 0 /\ ~execs[i].parseable) =>
        /\ CountFor(failed_tests, RecName(execs[i].service)) = 1
        /\ \A k \in 1..Len(failed_tests) :
              failed_tests[k].service = RecName(execs[i].service)
                => failed_tests[k].status = "failed"

\* C9: a service whose tool cannot start or whose build step fails has
\* exactly one failed record with a diagnostic message and zero passed
\* tests, and the run goes on.
C9_NoStartRecorded ==
  \A i \in 1..Len(execs) :
     execs[i].outcome = "nostart" =>
        /\ crash # "service"
        /\ execs[i].counted[1] = 0
        /\ CountFor(failed_tests, RecName(execs[i].service)) = 1
        /\ \A k \in 1..Len(failed_tests) :
              failed_tests[k].service = RecName(execs[i].service) =>
                 failed_tests[k].status = "failed" /\ failed_tests[k].message # <<>>

\* C10 as stated: with the discovery root missing no service is executed
\* and no report file is written or uploaded.
C10_NoReportWithoutRoot ==
  ~rootExists => execs = <<>> /\ written = 0 /\ uploaded = 0

\* C10 as amended: with the discovery root missing no service is executed;
\* every runner but Kotlin writes and uploads nothing, and the report of
\* the Kotlin runner holds nothing but the failure of service "global".
C10_MissingRootHalts ==
  ~rootExists =>
     /\ execs = <<>>
     /\ tool # "kotlin" => written = 0 /\ uploaded = 0 /\ ~report.emitted
     /\ (tool = "kotlin" /\ report.emitted) =>
          /\ report.tests = <<Failure(N_global, <<"setup">>, "failed",
                                      <<"traceback">>, -1)>>
          /\ report.summary.tests = 1 /\ report.summary.failed = 1
          /\ report.summary.passed = 0 /\ report.summary.services = 0
          /\ report.no_tests = <<>>

\* C10 witness: a run that found no root and returned from main().
C10_Witness == ~rootExists /\ pc = "halted" /\ written = 0

\* C11: a failure of the upload step after the report was written is only
\* logged: the report file stays in place and the run does not end with an
\* error because of the upload.
C11_UploadFailureLogged ==
  uploaded > 0 => written = 1 /\ report.emitted /\ pc = "done" /\ crash = "none"

\* C12: the upload is attempted only after the report file was written, at
\* most one report is written per run, and when the write fails no upload
\* is attempted and the run ends with an error.
C12_UploadAfterWrite ==
  /\ written <= 1
  /\ uploaded <= written
  /\ uploaded > 0 => report.emitted
  /\ crash = "write" => uploaded = 0 /\ written = 0 /\ pc = "crashed"

\* C12 witness: a run that wrote its report and then attempted the upload.
C12_Witness == pc = "done" /\ written = 1 /\ uploaded = 1 /\ report.emitted

\* C13: every test command has a finite timeout: a run is never left waiting
\* on a test process that does not exit; the service is recorded as failed
\* and the loop goes on to the next service.
C13_FiniteTimeout ==
  /\ pc # "waiting"
  /\ \A i \in 1..Len(execs) :
        execs[i].outcome = "hung" =>
          CountFor(failed_tests, RecName(execs[i].service)) >= 1

\* C14: in the emitted summary start_time <= stop_time, start_time is
\* captured no later than the dispatch of the first service and stop_time
\* after the last service has completed, so the interval covers every
\* test-command invocation of the run.
C14_IntervalCoversRun ==
  /\ Len(spans) = Len(execs)
  /\ report.emitted =>
       /\ report.summary.start_time <= report.summary.stop_time
       /\ \A i \in 1..Len(spans) :
             execs[i].invoked =>
               /\ report.summary.start_time <= spans[i].from
               /\ spans[i].to <= report.summary.stop_time

\* The discovered services in discovery order: the directories of the loop
\* sequence (two runners iterate over plain files as well and skip them).
Discovered == SelectSeq(services, IsDir)

\* The 1-based discovery positions of the services a record name stands for.
DiscoveryPositions(name) ==
  {k \in 1..Len(Discovered) : RecName(Discovered[k]) = name}

\* C15: in the emitted tests list the failure records follow the discovery
\* order of their services: of two records, the service of the earlier one
\* is not discovered after the service of the later one.
C15_FailuresInDiscoveryOrder ==
  report.emitted =>
    \A i, j \in 1..Len(report.tests) :
       i < j =>
         /\ DiscoveryPositions(report.tests[i].service) # {}
         /\ \E ki \in DiscoveryPositions(report.tests[i].service),
               kj \in DiscoveryPositions(report.tests[j].service) : ki <= kj

\* C15 witness: a report whose tests list holds records of two services.
C15_Witness ==
  /\ report.emitted
  /\ \E i, j \in 1..Len(report.tests) :
        i < j /\ report.tests[i].service # report.tests[j].service

\* C16 as stated: every record of the emitted tests list that carries
\* order_tested has the 1-based discovery position of the service its
\* service field names.
C16_OrderTestedIsPosition ==
  report.emitted =>
    \A i \in 1..Len(report.tests) :
       report.tests[i].order_tested # NoOrder =>
          report.tests[i].order_tested \in DiscoveryPositions(report.tests[i].service)

\* C16 as amended: every record of the emitted tests list that carries
\* order_tested has the 1-based discovery position of the service its
\* service field names, except the record of service "global" of the Kotlin
\* runner, which names no discovered service and carries -1.
C16_OrderTestedOrGlobal ==
  report.emitted =>
    \A i \in 1..Len(report.tests) :
       report.tests[i].order_tested # NoOrder =>
         IF DiscoveryPositions(report.tests[i].service) = {}
           THEN /\ tool = "kotlin"
                /\ report.tests[i].service = N_global
                /\ report.tests[i].order_tested = -1
           ELSE report.tests[i].order_tested
                  \in DiscoveryPositions(report.tests[i].service)

\* C16 witness: an emitted record that carries the position of its service.
C16_Witness ==
  /\ report.emitted
  /\ \E i \in 1..Len(report.tests) :
        /\ report.tests[i].order_tested >= 1
        /\ report.tests[i].order_tested
              \in DiscoveryPositions(report.tests[i].service)

\* The iterations a runner counts into summary.services.
CountsAsService(e) ==
  CASE tool \in {"kotlin", "dotnet", "javascript"} -> TRUE
    [] tool \in {"maven", "phpunit", "go"} -> e.outcome = "ran"
    [] tool \in {"rust", "cpp"} -> e.invoked
    [] OTHER -> e.pred # "notdir"

\* The accumulation of one service's result into the run totals
\* (total_passed += passed, ... in the loop of main()).
Accumulate(acc, e) ==
  [services |-> acc.services + (IF CountsAsService(e) THEN 1 ELSE 0),
   tests |-> acc.tests + e.counted[1] + e.counted[2] + e.counted[3],
   passed |-> acc.passed + e.counted[1],
   failed |-> acc.failed + e.counted[2],
   skipped |-> acc.skipped + e.counted[3]]

RECURSIVE Aggregate(_)
\* The totals after the loop has gone through the results rs, first to last.
Aggregate(rs) ==
  IF rs = <<>>
    THEN [services |-> 0, tests |-> 0, passed |-> 0, failed |-> 0, skipped |-> 0]
    ELSE Accumulate(Aggregate(SubSeq(rs, 1, Len(rs) - 1)), rs[Len(rs)])

\* C17: aggregating the per-service results of a run in any other order
\* yields the summary totals the run emitted for services, tests, passed,
\* failed and skipped.
C17_OrderIndependentTotals ==
  (report.emitted /\ execs # <<>>) =>
     /\ \A p \in Permutations(1..Len(execs)) :
           Aggregate([i \in 1..Len(execs) |-> execs[p[i]]]) =
             [services |-> report.summary.services,
              tests |-> report.summary.tests,
              passed |-> report.summary.passed,
              failed |-> report.summary.failed,
              skipped |-> total_skipped]
     /\ (DOMAIN report.summary \cap {"skipped", "ignored"} # {}) =>
           SummarySkipped(report.summary) = total_skipped

\* C17 witness: an emitted report over two services with different results.
C17_Witness ==
  /\ report.emitted
  /\ \E i, j \in 1..Len(execs) :
        /\ execs[i].counted # execs[j].counted
        /\ execs[i].counted # Zero3 /\ execs[j].counted # Zero3

\* ---------------------------------------------------------------- C18
\* The failure records the run holds for the service of execs[i]: the .NET
\* records carry the loop index, the Maven records the directory name.
RecordsOf(i) ==
  SelectSeq(failed_tests,
            LAMBDA r : IF tool = "dotnet" THEN r.order_tested = i
                       ELSE r.service = execs[i].service)

Messages(recs) == [k \in 1..Len(recs) |-> recs[k].message]

\* a surefire report directory with a file ET.parse accepts, and some console
\* text next to it
MvnBothAvailable(fx) ==
  /\ \E k \in 1..Len(ReportDir(fx).files) : ReportDir(fx).files[k].ok
  /\ fx.console # <<>>

\* a TRX file that parses, and some console text next to it
NetBothAvailable(fx) ==
  /\ \E k \in 1..Len(fx.trxs) : fx.trxs[k].ok
  /\ fx.output # <<>>

\* the counts and the failure messages are the ones of the surefire report
FromSurefire(i) ==
  LET suites == OkSuites(ReportDir(inputs[i]).files)
      bad == FailingCases(Flatten([k \in 1..Len(suites) |-> suites[k].cases]))
      tt == SumSeq([k \in 1..Len(suites) |-> suites[k].tests])
      tf == SumSeq([k \in 1..Len(suites) |->
                      suites[k].failures + suites[k].errors])
      ts == SumSeq([k \in 1..Len(suites) |-> suites[k].skipped])
  IN  /\ execs[i].counted = <<tt - tf - ts, tf, ts>>
      /\ Messages(RecordsOf(i)) = [k \in 1..Len(bad) |-> SurefireMessage(bad[k])]

\* the failure records are the failed UnitTestResult elements of the TRX file
FromTrx(i) ==
  LET ok == SelectSeq(inputs[i].trxs, LAMBDA t : t.ok)
  IN  /\ Len(RecordsOf(i)) = Len(ok[1].failed)
      /\ \A k \in 1..Len(RecordsOf(i)) :
            /\ RecordsOf(i)[k].test_name = <<ok[1].failed[k]>>
            /\ RecordsOf(i)[k].message = <<"message", "stacktrace">>

\* the failure records are the header blocks of the console text
FromNetText(i) ==
  LET h == SelectSeq(inputs[i].output, LAMBDA l : l.kind = "header")
  IN  /\ Len(RecordsOf(i)) = Len(h)
      /\ \A k \in 1..Len(h) :
            /\ RecordsOf(i)[k].test_name = <<h[k].name>>
            /\ RecordsOf(i)[k].message = <<"block">>

\* C18 as stated: whenever a service that ran left both a structured report
\* (surefire XML, TRX) and console text, its results are the ones of the
\* structured report; the text is consulted only when no usable structured
\* report exists.
C18_StructuredPreferred ==
  \A i \in 1..Len(execs) :
     execs[i].outcome = "ran" =>
       /\ (tool = "maven" /\ MvnBothAvailable(inputs[i])) => FromSurefire(i)
       /\ (tool = "dotnet" /\ NetBothAvailable(inputs[i])) => FromTrx(i)

\* C18 as amended: the Maven runner takes the results of a service from the
\* surefire report whenever one is available next to the console text; the
\* .NET runner always counts from the console summary line, takes the failure
\* records from the console text whenever it holds a failure header, and from
\* a TRX file only when the text yields no record.
C18_StructuredPreferredMavenOnly ==
  \A i \in 1..Len(execs) :
     execs[i].outcome = "ran" =>
       /\ (tool = "maven" /\ MvnBothAvailable(inputs[i])) => FromSurefire(i)
       /\ (tool = "dotnet" /\ NetBothAvailable(inputs[i])) =>
            /\ execs[i].counted = parse_dotnet_test_results(inputs[i].output)
            /\ execs[i].counted[2] = 0 => RecordsOf(i) = <<>>
            /\ execs[i].counted[2] > 0 =>
                 IF \E k \in 1..Len(inputs[i].output) :
                       inputs[i].output[k].kind = "header"
                   THEN FromNetText(i)
                   ELSE \/ FromTrx(i)
                        \/ /\ Len(RecordsOf(i)) = 1
                           /\ RecordsOf(i)[1].test_name = <<"unknown">>

\* a .NET service ran with failures, a failure header in the console text and
\* a TRX file that parses and names failed tests
C18_Witness ==
  \E i \in 1..Len(execs) :
     /\ execs[i].outcome = "ran"
     /\ execs[i].counted[2] > 0
     /\ tool = "dotnet"
     /\ NetBothAvailable(inputs[i])
     /\ \E k \in 1..Len(inputs[i].trxs) :
           inputs[i].trxs[k].ok /\ inputs[i].trxs[k].failed # <<>>
     /\ \E k \in 1..Len(inputs[i].output) : inputs[i].output[k].kind = "header"
     /\ RecordsOf(i) # <<>>

\* ---------------------------------------------------------------- C19
\* no file of the surefire report directory can be read as XML: the directory
\* is missing, holds no .xml file, or every .xml file in it is malformed
MvnNoUsableReport(fx) ==
  \A k \in 1..Len(ReportDir(fx).files) : ~ReportDir(fx).files[k].ok

\* C19: when the surefire report of a Maven service that ran is absent, or
\* present with every XML file malformed, the counts of the service are the
\* ones of the console text ("Tests run:" lines), never zeros of the XML path.
C19_FallsBackToConsole ==
  \A i \in 1..Len(execs) :
     (tool = "maven" /\ execs[i].outcome = "ran" /\ MvnNoUsableReport(inputs[i])) =>
        execs[i].counted = mvn_parse_test_results(inputs[i].console)

\* ---------------------------------------------------------------- C20
\* the class the rule gives a testcase: failed before skipped before passed
RuleStatus(hasFailureOrError, hasSkipped) ==
  IF hasFailureOrError THEN "failed"
  ELSE IF hasSkipped THEN "skipped"
  ELSE "passed"

\* the testcases of the XML files a service left, in document order, as
\* [bad, skipped]: bad = has a failure or error child
TestcaseNodes(fx) ==
  IF tool = "kotlin"
    THEN LET cs == Flatten([k \in 1..Len(fx.results.files) |-> fx.results.files[k].cases])
         IN  [k \in 1..Len(cs) |->
                [bad |-> cs[k].failure # <<>> \/ cs[k].error # <<>>,
                 skipped |-> cs[k].skipped]]
    ELSE LET ss == OkSuites(ReportDir(fx).files)
             cs == Flatten([k \in 1..Len(ss) |-> ss[k].cases])
         IN  [k \in 1..Len(cs) |->
                [bad |-> cs[k].fnodes # <<>>, skipped |-> cs[k].skipped]]

RuleCount(nodes, st) ==
  Cardinality({k \in 1..Len(nodes) : RuleStatus(nodes[k].bad, nodes[k].skipped) = st})

\* the service ran and every XML file it left was parsed
ParsedStructured(i) ==
  /\ execs[i].outcome = "ran"
  /\ IF tool = "kotlin"
       THEN /\ inputs[i].rc = 0
            /\ inputs[i].results.present
            /\ \A k \in 1..Len(inputs[i].results.files) : inputs[i].results.files[k].ok
       ELSE /\ tool = "maven"
            /\ ReportDir(inputs[i]).files # <<>>
            /\ \A k \in 1..Len(ReportDir(inputs[i]).files) :
                  ReportDir(inputs[i]).files[k].ok

\* C20: the counts a service gets from its XML report are the numbers of its
\* testcase nodes that are failed (a failure or error child), else skipped (a
\* skipped child), else passed; a testcase with a failure and a skipped child
\* counts as failed, and every testcase is counted once.
C20_FailedBeforeSkipped ==
  \A i \in 1..Len(execs) :
     ParsedStructured(i) =>
        LET nodes == TestcaseNodes(inputs[i])
        IN  execs[i].counted = <<RuleCount(nodes, "passed"),
                                 RuleCount(nodes, "failed"),
                                 RuleCount(nodes, "skipped")>>

\* ---------------------------------------------------------------- C21
\* C21: every failure record made from a testcase of a structured report
\* (surefire XML, Gradle XML) has a non-empty message: the message attribute
\* and the body text of the failure/error node, or the literal "FAILED" when
\* both are empty.
C21_MessageNeverEmpty ==
  \A i \in 1..Len(execs) :
     ParsedStructured(i) =>
        \A k \in 1..Len(RecordsOf(i)) :
           RecordsOf(i)[k].status = "failed" => RecordsOf(i)[k].message # <<>>

\* ---------------------------------------------------------------- C22
\* the counts the rule derives from aggregate run/failures/errors/skipped
RuleCounts(run, f, e, s) == <<run - (f + e + s), f + e, s>>

\* the component-wise sum of a sequence of <<passed, failed, skipped>>
Sum3(cs) ==
  <<SumSeq([k \in 1..Len(cs) |-> cs[k][1]]),
    SumSeq([k \in 1..Len(cs) |-> cs[k][2]]),
    SumSeq([k \in 1..Len(cs) |-> cs[k][3]])>>

\* the aggregate counts the tool reported for a service, each turned into
\* <<passed, failed, skipped>> by the rule: the suites of the surefire report
\* when the Maven runner reads it, else the "Tests run:" lines of the console;
\* the summary line of each PHPUnit output (an output without one counts as
\* parse_phpunit_output counts it)
AggregateRuleCounts(fx) ==
  IF tool = "maven"
    THEN IF ReportDir(fx).present /\ ReportDir(fx).files # <<>>
           THEN LET ss == OkSuites(ReportDir(fx).files)
                IN  [k \in 1..Len(ss) |->
                       RuleCounts(ss[k].tests, ss[k].failures, ss[k].errors,
                                  ss[k].skipped)]
           ELSE LET ls == SelectSeq(fx.console, LAMBDA l : l.tr)
                IN  [k \in 1..Len(ls) |->
                       RuleCounts(ls[k].run, ls[k].failures, ls[k].errors,
                                  ls[k].skipped)]
    ELSE [k \in 1..Len(fx.files) |->
            IF fx.files[k].ok < 0 /\ fx.files[k].summary
              THEN RuleCounts(fx.files[k].tests, fx.files[k].failures,
                              fx.files[k].errors, fx.files[k].skipped)
              ELSE parse_phpunit_output(fx.files[k])]

\* C22: whenever the tool reported aggregate run/failures/errors/skipped
\* counts for a service that ran (Maven, PHPUnit), the counts of the service
\* are passed = run - (failures + errors + skipped), failed = failures +
\* errors, skipped = skipped: errors are never counted as passed.
C22_PassedIsRunMinusRest ==
  \A i \in 1..Len(execs) :
     (tool \in {"maven", "phpunit"} /\ execs[i].outcome = "ran") =>
        execs[i].counted = Sum3(AggregateRuleCounts(inputs[i]))

\* ---------------------------------------------------------------- C23
\* C23: every record of the tests list of an emitted report has status
\* "failed"; the passed and skipped testcases are counted in the summary only,
\* whatever statuses the parser gave its records.
C23_OnlyFailedRecords ==
  report.emitted =>
    \A k \in 1..Len(report.tests) : report.tests[k].status = "failed"

\* a report was emitted after the parser had made a record of another status,
\* and it holds a record
C23_Witness ==
  /\ report.emitted
  /\ report.tests # <<>>
  /\ \E k \in 1..Len(failed_tests) : failed_tests[k].status = "skipped"
  /\ report.summary.skipped > 0

\* ---------------------------------------------------------------- C24
\* the TRX files run_dotnet_tests looks at: the most recent one, then the
\* most recent one named after the service's position
ConsultedTrx(fx) == find_trx_file(fx.trxs, FALSE) \o find_trx_file(fx.trxs, TRUE)

\* neither the console text nor a consulted TRX file yields a failure record
NoFailureDetail(fx) ==
  /\ \A k \in 1..Len(fx.output) : fx.output[k].kind # "header"
  /\ \A k \in 1..Len(ConsultedTrx(fx)) :
        ~ConsultedTrx(fx)[k].ok \/ ConsultedTrx(fx)[k].failed = <<>>

\* C24: for a .NET service that ran, a failed count of 0 appends no record; a
\* failed count above 0 appends at least one, and exactly one record "unknown"
\* with the fixed diagnostic message when neither text extraction nor TRX
\* parsing yields a record; the loop goes on after it.
C24_SyntheticRecord ==
  \A i \in 1..Len(execs) :
     (tool = "dotnet" /\ execs[i].outcome = "ran") =>
        /\ execs[i].counted[2] = 0 => RecordsOf(i) = <<>>
        /\ execs[i].counted[2] > 0 => RecordsOf(i) # <<>>
        /\ (execs[i].counted[2] > 0 /\ NoFailureDetail(inputs[i])) =>
              /\ Len(RecordsOf(i)) = 1
              /\ RecordsOf(i)[1].status = "failed"
              /\ RecordsOf(i)[1].test_name = <<"unknown">>
              /\ RecordsOf(i)[1].message =
                   <<"Failed tests detected but failure details could not be parsed. See test log.">>
        /\ IF i = Len(execs) THEN crash # "service" /\ pc # "waiting" /\ idx = i + 1
           ELSE TRUE

\* a .NET service with failures and no failure detail got its record, and
\* the service after it was run
C24_Witness ==
  /\ tool = "dotnet"
  /\ \E i \in 1..Len(execs) :
        /\ i < Len(execs)
        /\ execs[i].outcome = "ran"
        /\ execs[i].counted[2] > 0
        /\ NoFailureDetail(inputs[i])
        /\ Len(RecordsOf(i)) = 1
        /\ execs[i + 1].outcome = "ran"

\* ---------------------------------------------------------------- C25
\* C25: the results of a Maven service that ran are the ones of this run of
\* mvn: a surefire-reports directory left by an earlier run does not change
\* the counts or the number of failure records of the service.
C25_NoStaleReport ==
  \A i \in 1..Len(execs) :
     (tool = "maven" /\ execs[i].outcome = "ran") =>
        LET fresh == run_maven_tests(WithStale(inputs[i], NoXml, TRUE),
                                     execs[i].service, 1)
        IN  /\ execs[i].counted = fresh.counts
            /\ execs[i].added = Len(fresh.failures)

\* ---------------------------------------------------------------- C26
\* C26: when the run is interrupted while the test process of a service is
\* in flight, a report is still written, and it holds a failure record for
\* the service that was cut off.
C26_InterruptFlushesReport ==
  crash = "interrupt" =>
    /\ report.emitted
    /\ written = 1
    /\ CountFor(report.tests, RecName(execs[Len(execs)].service)) >= 1

\* ---------------------------------------------------------------- C27
\* the test tool of the service was started and came back
TestsActuallyRun(e) == e.invoked /\ e.outcome \in {"ran", "raised"}

\* C27: summary.services of an emitted report is the number of services
\* whose tests were actually run; services without tests, excluded services,
\* services whose tool is missing and entries that are no directory are not
\* counted.
C27_ServicesCountsRuns ==
  report.emitted =>
    report.summary.services =
      Cardinality({i \in 1..Len(execs) : TestsActuallyRun(execs[i])})

\* ---------------------------------------------------------------- C28
\* the "Tests run:" lines of a console
TestsRunLines(console) == SelectSeq(console, LAMBDA l : l.tr)

\* the console holds per-class lines followed by the aggregate line of the
\* same build: the last line adds up the ones before it
HasAggregateLine(console) ==
  LET ls == TestsRunLines(console)
      n == Len(ls)
  IN  /\ n >= 2
      /\ ls[n].run = SumSeq([k \in 1..n - 1 |-> ls[k].run])
      /\ ls[n].failures = SumSeq([k \in 1..n - 1 |-> ls[k].failures])
      /\ ls[n].errors = SumSeq([k \in 1..n - 1 |-> ls[k].errors])
      /\ ls[n].skipped = SumSeq([k \in 1..n - 1 |-> ls[k].skipped])

\* C28: when the Maven runner counts a service from console text that holds
\* one "Tests run:" line per test class and then the aggregate line of the
\* build, the counts are the ones of the aggregate line: every test is
\* counted once.
C28_AggregateLineOnce ==
  \A i \in 1..Len(execs) :
     (/\ tool = "maven"
      /\ execs[i].outcome = "ran"
      /\ ~ReportDir(inputs[i]).present
      /\ HasAggregateLine(inputs[i].console)) =>
        LET ls == TestsRunLines(inputs[i].console)
            a == ls[Len(ls)]
        IN  execs[i].counted = <<a.run - (a.failures + a.errors + a.skipped),
                                 a.failures + a.errors, a.skipped>>

\* ---------------------------------------------------------------- C29
\* the elements of a sequence
Elems(s) == {s[k] : k \in 1..Len(s)}

\* C29: in the Rust runner, after every loop iteration and in the emitted
\* report, services_tested and no_tests are disjoint, hold together exactly
\* the services processed so far, each once, and summary.services is the
\* length of services_tested, whether a build failed or the tests ran.
C29_RustPartition ==
  (tool = "rust" /\ pc \in {"loop", "upload", "done"}) =>
     /\ Elems(services_tested_list) \cap Elems(no_tests) = {}
     /\ Elems(services_tested_list) \cup Elems(no_tests) =
          {services[k] : k \in 1..idx - 1}
     /\ Len(services_tested_list) + Len(no_tests) = idx - 1
     /\ services_tested = Len(services_tested_list)
     /\ report.emitted =>
          /\ report.services_tested = services_tested_list
          /\ report.no_tests = no_tests
          /\ report.summary.services = Len(report.services_tested)

\* a Rust report over a service without tests, one whose build failed and
\* one whose tests ran
C29_Witness ==
  /\ tool = "rust"
  /\ report.emitted
  /\ report.no_tests # <<>>
  /\ \E i, j \in 1..Len(execs) :
        /\ execs[i].outcome = "nostart" /\ execs[i].invoked
        /\ execs[j].outcome = "ran"
  /\ report.summary.services = 2

\* ---------------------------------------------------------------- C30
\* C30: in every emitted report summary.tests, passed, failed and skipped,
\* and the passed count of every per-service record, are not negative,
\* whatever the tool printed, also when its aggregate counts are
\* inconsistent (failures + errors + skipped above the run count).
C30_CountsNotNegative ==
  report.emitted =>
    /\ report.summary.tests >= 0
    /\ report.summary.passed >= 0
    /\ report.summary.failed >= 0
    /\ SummarySkipped(report.summary) >= 0
    /\ \A k \in 1..Len(service_details) : service_details[k].passed >= 0

====
